---- MODULE Spec2Model ----
(***************************************************************************)
(* Remote browser session layer of eliteweblabs/automated.                 *)
(*                                                                         *)
(*  Part I   BrowserbaseSessionLimiter   (src/apps/cua-agent/examples.ts)  *)
(*  Part II  useBrowserCDP protocol bridge (src/unnamed/part_002)          *)
(*                                                                         *)
(* Time in Part I is kept relative to Date.now(): a create timestamp t is  *)
(* stored as its age Date.now() - t, and a pending timer as the time left  *)
(* until it is due, so that time can pass without bound in a finite model. *)
(***************************************************************************)
EXTENDS Integers, Sequences, FiniteSets, TLC

(***************************************************************************)
(* Bounds of the model                                                     *)
(***************************************************************************)
MaxRequests == 3
MaxCreatesBound == 2
MaxConcurrentBound == 2
TicksPerWindow == 2
NearExpiryMs == 25
MaxObjects == 3
MaxIds == 2
IdHeadroom == 1
MaxInteractions == 2
MaxTextLen == 3
MaxEnrichments == 2
MaxParseFailures == 1

(***************************************************************************)
(* Program constants                                                       *)
(***************************************************************************)
DEFAULT_MAX_CREATES_PER_MINUTE == 20
DEFAULT_MAX_CONCURRENT_SESSIONS == 25
CREATE_WINDOW_MS == 60000
MIN_TIMER_DELAY_MS == 50

SessionIds == {"s1", "s2"}
EmptyId == ""
NoTimer == -1

Min(a, b) == IF a < b THEN a ELSE b
Max(a, b) == IF a > b THEN a ELSE b

TickMs == CREATE_WINDOW_MS \div TicksPerWindow
TimeSteps == {TickMs, CREATE_WINDOW_MS - NearExpiryMs}

VARIABLES
  maxCreatesPerMinute,    \* readonly, set by the constructor
  maxConcurrentSessions,  \* readonly, set by the constructor
  createTimestamps,       \* sequence of ages (Date.now() - timestamp), oldest first
  activeSessionIds,       \* Set<string>
  pendingReservations,    \* number
  queue,                  \* QueueItem[]: the request (source) numbers, head first
  processTimer,           \* NoTimer (null) or the ms left until the timeout is due
  leases,                 \* per request: "none" | "queued" | "granted" | "finalized"
  nextRequest,            \* number of acquireCreateLease calls made so far
  grantLog,               \* history: the age of every grant, saturating at the window
  decrements,             \* history: per lease, how often finalize decremented pending
  repeatCalls,            \* history: some lease was confirmed/cancelled again
  liveTimeouts            \* history: the setTimeout handles neither fired nor cleared

limVars == <<maxCreatesPerMinute, maxConcurrentSessions, createTimestamps,
             activeSessionIds, pendingReservations, queue, processTimer,
             leases, nextRequest, grantLog, decrements, repeatCalls,
             liveTimeouts>>

VARIABLES
  sockets,                 \* every WebSocket constructed: [kind, page, readyState]
  wsRef,                   \* the control connection, or NoSocket
  currentPageIdRef,        \* page id of the control connection, or NullPage
  isConnected,             \* state.isConnected
  messageIdRef,            \* next command id
  pendingRequestsRef,      \* Map<id, PendingRequest>: set of [id, cmd]
  pageSessionsRef,         \* Map<pageId, WebSocket>: NoSocket when absent
  keepAliveIntervalsRef,   \* Map<pageId, interval>: the socket the interval pings
  knownPageIdsRef,         \* Set<pageId>
  commands,                \* the promises returned by send / sendToPage
  listeners,               \* 'message' listeners of sendToPage: set of [sock, id, cmd]
  openWaiters,             \* once 'open' listeners of sendToPage: set of [sock, cmd]
  errorWaiters,            \* once 'error' listeners of sendToPage: set of [sock, cmd]
  unanswered,              \* messages the remote side has yet to deliver
  disconnectedCalls,       \* the calls of onWebSocketDisconnected: [sock, was],
                           \* since the session last had no connection
  cleanLastCloses,         \* history: the kinds of socket that closed with code 1000
                           \* when no other connection was open
  ensuredIds,              \* history: the ids of the latest ensurePageConnections call
  newTabsDetected,         \* target ids passed to onNewTabDetected
  createdTargets,          \* target ids the browser created for Target.createTarget
  parseFailures,           \* the messages ws.onmessage could not parse (its
                           \* console.warn calls): [sock, outstanding]
  wire                     \* history: per socket not yet closed, the commands put
                           \* on the wire, in the order of its ws.send calls: [id, cmd]

brVars == <<sockets, wsRef, currentPageIdRef, isConnected, messageIdRef,
            pendingRequestsRef, pageSessionsRef, keepAliveIntervalsRef,
            knownPageIdsRef, commands, listeners, openWaiters, errorWaiters,
            unanswered, disconnectedCalls, cleanLastCloses, ensuredIds, newTabsDetected,
            createdTargets, parseFailures, wire>>

VARIABLES
  interactions,             \* state.interactions: [id, type, pageId, tagName, selector, text]
  typingBufferRef,          \* NoBuffer or [interactionId, text, lastTimestamp, selector]
  lastNavigationRefreshRef, \* time since the last accepted navigation
  lastClickTimestampRef,    \* time since the last accepted click
  lastKeydownRef,           \* NoKeydown or [key, timestamp]
  interactionIds,           \* number of interaction ids generated so far
  frameNavigations,         \* the calls of onFrameNavigation: [url, pageId]
  enrichmentTimers,         \* pending setTimeout(..., 500) of accepted navigations
  enrichmentListeners,      \* title/favicon 'message' listeners: [sock, id, age, timer]
  acceptedClicks,           \* history: per page, time since its last accepted click
  acceptedNavigations,      \* history: per page, time since its last accepted navigation
  lastPageEvent,            \* history: the last click or navigation and its effect
  acceptedKeydowns,         \* history: per key, time since its last accepted keydown
  typed,                    \* history: the run of plain keydowns being typed
  beforeLastKey,            \* history: the buffer text before the last appended key
  enrichmentTriggers        \* history: the title/favicon queries on a connection in
                            \* the last 5 s: [sock, age]

synVars == <<interactions, typingBufferRef, lastNavigationRefreshRef,
             lastClickTimestampRef, lastKeydownRef, interactionIds, frameNavigations,
             enrichmentTimers, enrichmentListeners, acceptedClicks,
             acceptedNavigations, lastPageEvent, acceptedKeydowns, typed,
             beforeLastKey, enrichmentTriggers>>

\* the history variables of Part III
histVars == <<acceptedClicks, acceptedNavigations, lastPageEvent, acceptedKeydowns,
              typed, beforeLastKey>>

Requests == 1..MaxRequests

(***************************************************************************)
(* The mutable limiter state as one value, threaded through the private    *)
(* methods the way `this` is.                                              *)
(***************************************************************************)
LimiterState ==
  [createTimestamps |-> createTimestamps,
   activeSessionIds |-> activeSessionIds,
   pendingReservations |-> pendingReservations,
   queue |-> queue,
   processTimer |-> processTimer,
   leases |-> leases,
   grantLog |-> grantLog,
   decrements |-> decrements,
   liveTimeouts |-> liveTimeouts]

Commit(st) ==
  /\ createTimestamps' = st.createTimestamps
  /\ activeSessionIds' = st.activeSessionIds
  /\ pendingReservations' = st.pendingReservations
  /\ queue' = st.queue
  /\ processTimer' = st.processTimer
  /\ leases' = st.leases
  /\ grantLog' = st.grantLog
  /\ decrements' = st.decrements
  /\ liveTimeouts' = st.liveTimeouts
  /\ UNCHANGED <<maxCreatesPerMinute, maxConcurrentSessions>>
  /\ UNCHANGED <<brVars, synVars>>

\* pruneCreateTimestamps: drop from the front while timestamp <= now - window,
\* that is while the age is >= the window.
RECURSIVE pruneCreateTimestamps(_)
pruneCreateTimestamps(ts) ==
  IF Len(ts) > 0 /\ ts[1] >= CREATE_WINDOW_MS
    THEN pruneCreateTimestamps(Tail(ts))
    ELSE ts

Pruned(st) == [st EXCEPT !.createTimestamps = pruneCreateTimestamps(@)]

\* logStats only prints, but it prunes the window first
logStats(st) == Pruned(st)

\* slip: <= for <
hasRateCapacityOffByOne(st) ==
  Len(pruneCreateTimestamps(st.createTimestamps)) <= maxCreatesPerMinute

hasRateCapacity(st) ==
  Len(pruneCreateTimestamps(st.createTimestamps)) < maxCreatesPerMinute

\* slip: pending reservations left out of the tracked count
hasConcurrentCapacityActiveOnly(st) ==
  Cardinality(st.activeSessionIds) < maxConcurrentSessions

hasConcurrentCapacity(st) ==
  Cardinality(st.activeSessionIds) + st.pendingReservations < maxConcurrentSessions

canGrantNextLease(st) == hasRateCapacity(st) /\ hasConcurrentCapacity(st)

\* slip: the handle is forgotten, the timeout is left running
clearProcessTimerForgets(st) == [st EXCEPT !.processTimer = NoTimer]

\* clearTimeout of the handle held, if any; the timer callback drops the
\* handle of the timeout that has just fired in the same way
clearProcessTimer(st) ==
  IF st.processTimer = NoTimer THEN st
  ELSE [st EXCEPT !.processTimer = NoTimer, !.liveTimeouts = @ - 1]

\* slip: the grant does not reserve
GrantHeadNoReserve(st) ==
  LET r == Head(st.queue) IN
  [st EXCEPT !.queue = Tail(@),
             !.createTimestamps = Append(@, 0),
             !.grantLog = Append(@, 0),
             !.leases = [@ EXCEPT ![r] = "granted"]]

\* slip: pop() for shift(), the latest request is served first
GrantLast(st) ==
  LET r == st.queue[Len(st.queue)] IN
  [st EXCEPT !.queue = SubSeq(@, 1, Len(@) - 1),
             !.pendingReservations = @ + 1,
             !.createTimestamps = Append(@, 0),
             !.grantLog = Append(@, 0),
             !.leases = [@ EXCEPT ![r] = "granted"]]

\* One iteration of the while loop of processQueue: shift the head, reserve,
\* stamp, resolve the request's promise with a fresh lease (finalized = false).
GrantHead(st) ==
  LET r == Head(st.queue) IN
  [st EXCEPT !.queue = Tail(@),
             !.pendingReservations = @ + 1,
             !.createTimestamps = Append(@, 0),
             !.grantLog = Append(@, 0),
             !.leases = [@ EXCEPT ![r] = "granted"]]

RECURSIVE GrantLoop(_)
GrantLoop(st) ==
  IF Len(st.queue) > 0 /\ canGrantNextLease(st)
    THEN GrantLoop(logStats(GrantHead(Pruned(st))))
    ELSE Pruned(st)

\* slip: the wake-up is never armed
scheduleNothing(st) == st

scheduleWhenRateWindowOpens(st) ==
  IF Len(st.queue) = 0 \/ Len(st.createTimestamps) = 0
    THEN st
    ELSE LET untilAvailable == CREATE_WINDOW_MS - st.createTimestamps[1]
             delayMs == Max(untilAvailable, MIN_TIMER_DELAY_MS)
         IN [st EXCEPT !.processTimer = delayMs, !.liveTimeouts = @ + 1]

processQueue(st) ==
  LET granted == GrantLoop(Pruned(clearProcessTimer(st))) IN
  IF Len(granted.queue) = 0 THEN granted
  ELSE IF hasConcurrentCapacity(granted) THEN scheduleWhenRateWindowOpens(granted)
  ELSE granted

\* slip: no finalized flag
finalizeUnguarded(st, r, sessionId) ==
  LET dec == st.pendingReservations > 0
      s1 == [st EXCEPT !.leases = [@ EXCEPT ![r] = "finalized"],
                       !.pendingReservations = IF dec THEN @ - 1 ELSE @,
                       !.decrements = [@ EXCEPT ![r] = IF dec THEN @ + 1 ELSE @]]
      s2 == IF sessionId # EmptyId
              THEN [s1 EXCEPT !.activeSessionIds = @ \cup {sessionId}]
              ELSE s1
  IN processQueue(s2)

\* slip: the reservation is not given back
finalizeKeepsReservation(st, r, sessionId) ==
  IF st.leases[r] = "finalized" THEN st
  ELSE LET s1 == [st EXCEPT !.leases = [@ EXCEPT ![r] = "finalized"]]
           s2 == IF sessionId # EmptyId
                   THEN [s1 EXCEPT !.activeSessionIds = @ \cup {sessionId}]
                   ELSE s1
       IN processQueue(s2)

\* slip: the session id is not recorded
finalizeDropsSession(st, r, sessionId) ==
  IF st.leases[r] = "finalized" THEN st
  ELSE LET dec == st.pendingReservations > 0
           s1 == [st EXCEPT !.leases = [@ EXCEPT ![r] = "finalized"],
                            !.pendingReservations = IF dec THEN @ - 1 ELSE @,
                            !.decrements = [@ EXCEPT ![r] = IF dec THEN @ + 1 ELSE @]]
       IN processQueue(s1)

\* slip: a lease given up without a session gives its rate slot back
finalizeRefundsSlot(st, r, sessionId) ==
  IF st.leases[r] = "finalized" THEN st
  ELSE LET dec == st.pendingReservations > 0
           s1 == [st EXCEPT !.leases = [@ EXCEPT ![r] = "finalized"],
                            !.pendingReservations = IF dec THEN @ - 1 ELSE @,
                            !.decrements = [@ EXCEPT ![r] = IF dec THEN @ + 1 ELSE @]]
           s2 == IF sessionId # EmptyId
                   THEN [s1 EXCEPT !.activeSessionIds = @ \cup {sessionId}]
                   ELSE [s1 EXCEPT !.createTimestamps =
                                      SubSeq(@, 1, Len(@) - 1)]
       IN processQueue(s2)

\* finalize of the lease of request r; sessionId = EmptyId stands for finalize()
finalize(st, r, sessionId) ==
  IF st.leases[r] = "finalized" THEN st
  ELSE LET dec == st.pendingReservations > 0
           s1 == [st EXCEPT !.leases = [@ EXCEPT ![r] = "finalized"],
                            !.pendingReservations = IF dec THEN @ - 1 ELSE @,
                            !.decrements = [@ EXCEPT ![r] = IF dec THEN @ + 1 ELSE @]]
           s2 == IF sessionId # EmptyId
                   THEN [s1 EXCEPT !.activeSessionIds = @ \cup {sessionId}]
                   ELSE s1
       IN processQueue(s2)

(***************************************************************************)
(* Limiter operations                                                      *)
(***************************************************************************)
LimInit ==
  /\ maxCreatesPerMinute \in 1..MaxCreatesBound
  /\ maxConcurrentSessions \in 1..MaxConcurrentBound
  /\ createTimestamps = <<>>
  /\ activeSessionIds = {}
  /\ pendingReservations = 0
  /\ queue = <<>>
  /\ processTimer = NoTimer
  /\ leases = [r \in Requests |-> "none"]
  /\ nextRequest = 0
  /\ grantLog = <<>>
  /\ decrements = [r \in Requests |-> 0]
  /\ repeatCalls = FALSE
  /\ liveTimeouts = 0

acquireCreateLease ==
  /\ nextRequest < MaxRequests
  /\ nextRequest' = nextRequest + 1
  /\ UNCHANGED repeatCalls
  /\ LET r == nextRequest + 1
         st == LimiterState
         queued == [st EXCEPT !.queue = Append(@, r),
                              !.leases = [@ EXCEPT ![r] = "queued"]]
     IN Commit(processQueue(logStats(queued)))

registerActiveSession(sessionId) ==
  /\ UNCHANGED <<nextRequest, repeatCalls>>
  /\ IF sessionId = EmptyId
       THEN Commit(LimiterState)
       ELSE Commit(processQueue([LimiterState EXCEPT
                                   !.activeSessionIds = @ \cup {sessionId}]))

releaseActiveSession(sessionId) ==
  /\ UNCHANGED <<nextRequest, repeatCalls>>
  /\ IF sessionId = EmptyId \/ sessionId \notin activeSessionIds
       THEN Commit(LimiterState)
       ELSE Commit(processQueue([LimiterState EXCEPT
                                   !.activeSessionIds = @ \ {sessionId}]))

\* lease.confirmCreated(sessionId); an empty id warns and finalizes without one
confirmCreated(r, sessionId) ==
  /\ leases[r] \in {"granted", "finalized"}
  /\ UNCHANGED nextRequest
  /\ repeatCalls' = (repeatCalls \/ leases[r] = "finalized")
  /\ IF sessionId = EmptyId
       THEN Commit(finalize(LimiterState, r, EmptyId))
       ELSE Commit(finalize(logStats(LimiterState), r, sessionId))

\* lease.cancel()
cancel(r) ==
  /\ leases[r] \in {"granted", "finalized"}
  /\ UNCHANGED nextRequest
  /\ repeatCalls' = (repeatCalls \/ leases[r] = "finalized")
  /\ Commit(finalize(LimiterState, r, EmptyId))

getStats ==
  /\ UNCHANGED <<nextRequest, repeatCalls>>
  /\ Commit(Pruned(LimiterState))

\* the setTimeout callback of scheduleWhenRateWindowOpens, once it is due
processTimerFires ==
  /\ processTimer = 0
  /\ UNCHANGED <<nextRequest, repeatCalls>>
  /\ Commit(processQueue(clearProcessTimer(LimiterState)))

Aged(ts, d) == [i \in DOMAIN ts |-> Min(ts[i] + d, CREATE_WINDOW_MS)]

\* d milliseconds pass
TimePasses(d) ==
  /\ createTimestamps' = Aged(createTimestamps, d)
  /\ grantLog' = Aged(grantLog, d)
  /\ processTimer' = IF processTimer = NoTimer THEN NoTimer ELSE Max(processTimer - d, 0)
  /\ UNCHANGED <<maxCreatesPerMinute, maxConcurrentSessions, activeSessionIds,
                 pendingReservations, queue, leases, nextRequest, decrements,
                 repeatCalls, liveTimeouts>>
  /\ UNCHANGED <<brVars, synVars>>

LeaseNext ==
  \/ acquireCreateLease
  \/ \E r \in Requests, s \in SessionIds \cup {EmptyId} : confirmCreated(r, s)
  \/ \E r \in Requests : cancel(r)
  \/ \E s \in SessionIds \cup {EmptyId} : releaseActiveSession(s)
  \/ getStats
  \/ processTimerFires
  \/ \E d \in TimeSteps : TimePasses(d)

LimNext ==
  \/ LeaseNext
  \/ \E s \in SessionIds \cup {EmptyId} : registerActiveSession(s)

(***************************************************************************)
(* Part II: the protocol bridge (useBrowserCDP), with a session present.   *)
(*                                                                         *)
(* A WebSocket is an entry of `sockets` (its index is its identity); the   *)
(* remote browser is the set `unanswered` of messages it still owes the    *)
(* bridge, handed to onmessage in any order.                               *)
(***************************************************************************)
PageIds == {"p1", "p2"}
PAGE_MSG_ID_START == 1000
COMMAND_TIMEOUT_MS == 30000
CLEAN_CLOSE == 1000
ABNORMAL_CLOSE == 1006
\* who settled a promise: the command the settling message answered (0: a command
\* without a promise: Page.enable, a keep-alive ping, ...), or one of these
NotSettled == -1
ByTimeout == -2
ByNotConnected == -3
ByError == -4
NullPage == "null"
NoSocket == 0
CloseCodes == {CLEAN_CLOSE, ABNORMAL_CLOSE}
\* ensurePageConnections was not called yet
NeverEnsured == {NullPage}

BridgeState ==
  [sockets |-> sockets,
   wsRef |-> wsRef,
   currentPageIdRef |-> currentPageIdRef,
   isConnected |-> isConnected,
   messageIdRef |-> messageIdRef,
   pendingRequestsRef |-> pendingRequestsRef,
   pageSessionsRef |-> pageSessionsRef,
   keepAliveIntervalsRef |-> keepAliveIntervalsRef,
   knownPageIdsRef |-> knownPageIdsRef,
   commands |-> commands,
   listeners |-> listeners,
   openWaiters |-> openWaiters,
   errorWaiters |-> errorWaiters,
   unanswered |-> unanswered,
   disconnectedCalls |-> disconnectedCalls,
   cleanLastCloses |-> cleanLastCloses,
   ensuredIds |-> ensuredIds,
   newTabsDetected |-> newTabsDetected,
   createdTargets |-> createdTargets,
   parseFailures |-> parseFailures,
   wire |-> wire]

BrAssign(b) ==
  /\ sockets' = b.sockets
  /\ wsRef' = b.wsRef
  /\ currentPageIdRef' = b.currentPageIdRef
  /\ isConnected' = b.isConnected
  /\ messageIdRef' = b.messageIdRef
  /\ pendingRequestsRef' = b.pendingRequestsRef
  /\ pageSessionsRef' = b.pageSessionsRef
  /\ keepAliveIntervalsRef' = b.keepAliveIntervalsRef
  /\ knownPageIdsRef' = b.knownPageIdsRef
  /\ commands' = b.commands
  /\ listeners' = b.listeners
  /\ openWaiters' = b.openWaiters
  /\ errorWaiters' = b.errorWaiters
  /\ unanswered' = b.unanswered
  /\ disconnectedCalls' = b.disconnectedCalls
  /\ cleanLastCloses' = b.cleanLastCloses
  /\ ensuredIds' = b.ensuredIds
  /\ newTabsDetected' = b.newTabsDetected
  /\ createdTargets' = b.createdTargets
  /\ parseFailures' = b.parseFailures
  /\ wire' = b.wire

BrCommit(b) == BrAssign(b) /\ UNCHANGED <<limVars, synVars>>

(***************************************************************************)
(* WebSocket                                                               *)
(***************************************************************************)
ReadyState(b, s) == IF s = NoSocket THEN "NONE" ELSE b.sockets[s].readyState

IsOpen(b, s) == ReadyState(b, s) = "OPEN"
IsOpenOrConnecting(b, s) == ReadyState(b, s) \in {"OPEN", "CONNECTING"}

\* some connection of the session is not closed yet
SomeAlive(b) == \E s \in DOMAIN b.sockets : b.sockets[s].readyState # "CLOSED"

\* new WebSocket(url): the new socket is the last of b.sockets; the first
\* connection of a session that has none starts a new count of the calls of
\* onWebSocketDisconnected
NewWebSocket(b, kind, pageId) ==
  [b EXCEPT !.sockets = Append(@, [kind |-> kind, page |-> pageId,
                                   readyState |-> "CONNECTING"]),
            !.wire = Append(@, <<>>),
            !.disconnectedCalls = IF SomeAlive(b) THEN @ ELSE {}]

\* ws.close(): starts the closing handshake; the close event comes later
wsClose(b, s) ==
  IF IsOpenOrConnecting(b, s)
    THEN [b EXCEPT !.sockets[s].readyState = "CLOSING"]
    ELSE b

\* ws.send(JSON.stringify({id, ...})) as the wire sees it
onWire(b, s, id, cmd) == [b EXCEPT !.wire[s] = Append(@, [id |-> id, cmd |-> cmd])]

\* ws.send(JSON.stringify({id, ...})): the remote side owes a response
wsSend(b, s, id, cmd, target) ==
  [onWire(b, s, id, cmd) EXCEPT
     !.unanswered = @ \cup {[sock |-> s, kind |-> "response", id |-> id,
                             replyTo |-> cmd, target |-> target]}]

nextMessageId(b) == [b EXCEPT !.messageIdRef = @ + 1]

(***************************************************************************)
(* Promises of send / sendToPage                                           *)
(***************************************************************************)
NewCommand(b, via, method) ==
  [b EXCEPT !.commands = Append(@, [via |-> via, method |-> method, id |-> 0,
                                    status |-> "pending",
                                    result |-> "", settledBy |-> NotSettled,
                                    timer |-> NoTimer])]

\* resolve / reject of a promise: only the first call settles it
settle(b, cmd, status, result, by) ==
  IF b.commands[cmd].status = "pending"
    THEN [b EXCEPT !.commands[cmd].status = status,
                   !.commands[cmd].result = result,
                   !.commands[cmd].settledBy = by]
    ELSE b

\* createTarget: after `await send(...)`, register result.targetId
createTargetContinuation(b, cmd) ==
  IF /\ b.commands[cmd].method = "Target.createTarget"
     /\ b.commands[cmd].status = "resolved"
     /\ b.commands[cmd].result # ""
    THEN [b EXCEPT !.knownPageIdsRef = @ \cup {b.commands[cmd].result}]
    ELSE b

(***************************************************************************)
(* connectToPage and connect                                               *)
(***************************************************************************)
connectToPage(b, pageId) ==
  LET known == [b EXCEPT !.knownPageIdsRef = @ \cup {pageId}] IN
  IF IsOpenOrConnecting(known, known.pageSessionsRef[pageId])
    THEN known
    ELSE LET made == NewWebSocket(known, "page", pageId) IN
         [made EXCEPT !.pageSessionsRef[pageId] = Len(made.sockets)]

connect(b, pageId) ==
  IF IsOpen(b, b.wsRef) /\ b.currentPageIdRef = pageId
    THEN b
    ELSE LET closed == IF b.wsRef # NoSocket
                         THEN [wsClose(b, b.wsRef) EXCEPT !.wsRef = NoSocket]
                         ELSE b
             made == NewWebSocket([closed EXCEPT !.currentPageIdRef = pageId],
                                  "control", pageId)
         IN [made EXCEPT !.wsRef = Len(made.sockets)]

\* setupKeepAlive(pageId, ws)
setupKeepAlive(b, pageId, s) == [b EXCEPT !.keepAliveIntervalsRef[pageId] = s]

RECURSIVE RunOpenWaiters(_, _, _)

\* executeCommand of sendToPage on socket s
executeCommand(b, s, cmd) ==
  LET id == b.messageIdRef
      b1 == nextMessageId(b)
      b2 == [b1 EXCEPT !.commands[cmd].id = id,
                       !.commands[cmd].timer = COMMAND_TIMEOUT_MS,
                       !.listeners = @ \cup {[sock |-> s, id |-> id, cmd |-> cmd]}]
  IN wsSend(b2, s, id, cmd, "")

RECURSIVE RunOpenWaitersLatestFirst(_, _, _)

\* slip: the listeners for 'open' run in reverse
RunOpenWaitersLatestFirst(b, s, cmds) ==
  IF cmds = {} THEN b
  ELSE LET c == CHOOSE x \in cmds : \A y \in cmds : x >= y IN
       RunOpenWaitersLatestFirst(executeCommand(b, s, c), s, cmds \ {c})

\* the once-listeners for 'open' that sendToPage attached, in the order attached
RunOpenWaiters(b, s, cmds) ==
  IF cmds = {} THEN b
  ELSE LET c == CHOOSE x \in cmds : \A y \in cmds : x <= y IN
       RunOpenWaiters(executeCommand(b, s, c), s, cmds \ {c})

\* ws.onopen of a page connection, then the 'open' listeners of sendToPage
pageOnOpen(b, s) ==
  LET pageId == b.sockets[s].page
      opened == [b EXCEPT !.sockets[s].readyState = "OPEN"]
      alive == setupKeepAlive(opened, pageId, s)
      init1 == wsSend(alive, s, PAGE_MSG_ID_START, 0, "")
      init2 == wsSend(init1, s, PAGE_MSG_ID_START + 1, 0, "")
      init3 == wsSend(init2, s, PAGE_MSG_ID_START + 2, 0, "")
      waiting == {w.cmd : w \in {x \in b.openWaiters : x.sock = s}}
      cleared == [init3 EXCEPT !.openWaiters = {x \in @ : x.sock # s}]
  IN RunOpenWaiters(cleared, s, waiting)

\* ws.onopen of the control connection: Target.setDiscoverTargets takes the next
\* id of messageIdRef; no pending entry or listener is ever made for that id, so
\* its response is not kept among the messages owed
controlOnOpen(b, s) ==
  LET opened == [b EXCEPT !.sockets[s].readyState = "OPEN", !.isConnected = TRUE]
  IN onWire(nextMessageId(opened), s, opened.messageIdRef, 0)

\* a call of onWebSocketDisconnected, by the onclose of socket s
Lost(b, s) == [sock |-> s, was |-> b.sockets[s].readyState]

\* a page onclose that does not look at the close code
pageOnCloseAnyCode(b, s, code) ==
  LET pageId == b.sockets[s].page
      closed == [b EXCEPT !.sockets[s].readyState = "CLOSED",
                          !.pageSessionsRef[pageId] = NoSocket,
                          !.keepAliveIntervalsRef[pageId] = NoSocket]
      hasActiveConnections ==
        \E p \in PageIds : IsOpenOrConnecting(closed, closed.pageSessionsRef[p])
  IN IF ~hasActiveConnections
       THEN [closed EXCEPT !.disconnectedCalls = @ \cup {Lost(b, s)}]
       ELSE closed

\* ws.onclose of a page connection
pageOnClose(b, s, code) ==
  LET pageId == b.sockets[s].page
      closed == [b EXCEPT !.sockets[s].readyState = "CLOSED",
                          !.pageSessionsRef[pageId] = NoSocket,
                          !.keepAliveIntervalsRef[pageId] = NoSocket]
      hasActiveConnections ==
        \E p \in PageIds : IsOpenOrConnecting(closed, closed.pageSessionsRef[p])
  IN IF ~hasActiveConnections /\ code # CLEAN_CLOSE
       THEN [closed EXCEPT !.disconnectedCalls = @ \cup {Lost(b, s)}]
       ELSE closed

\* ws.onclose of a control connection
controlOnClose(b, s, code) ==
  LET pageId == b.sockets[s].page
      closed == [b EXCEPT !.sockets[s].readyState = "CLOSED"]
  IN IF closed.currentPageIdRef = pageId
       THEN LET reset == [closed EXCEPT !.isConnected = FALSE,
                                        !.wsRef = NoSocket,
                                        !.currentPageIdRef = NullPage]
            IN IF code # CLEAN_CLOSE
                 THEN [reset EXCEPT !.disconnectedCalls = @ \cup {Lost(b, s)}]
                 ELSE reset
       ELSE closed

\* the once 'error' listeners of sendToPage on socket s
RECURSIVE RunErrorWaiters(_, _, _)
RunErrorWaiters(b, s, cmds) ==
  IF cmds = {} THEN b
  ELSE LET c == CHOOSE x \in cmds : \A y \in cmds : x <= y IN
       RunErrorWaiters(settle(b, c, "rejected", "", ByError), s, cmds \ {c})

\* the 'error' event of a socket: ws.onerror, then the listeners of sendToPage
onError(b, s) ==
  LET flagged == IF b.sockets[s].kind = "control"
                   THEN [b EXCEPT !.isConnected = FALSE]
                   ELSE b
      waiting == {w.cmd : w \in {x \in b.errorWaiters : x.sock = s}}
      cleared == [flagged EXCEPT !.errorWaiters = {x \in @ : x.sock # s}]
  IN RunErrorWaiters(cleared, s, waiting)

(***************************************************************************)
(* onmessage                                                               *)
(***************************************************************************)
\* the pending-request part of ws.onmessage, the same on both kinds of connection
handlePendingResponse(b, m, err) ==
  LET hit == {p \in b.pendingRequestsRef : p.id = m.id} IN
  IF m.kind = "response" /\ hit # {}
    THEN LET p == CHOOSE x \in hit : TRUE
             removed == [b EXCEPT !.pendingRequestsRef = @ \ {p}]
             settled == IF err
                          THEN settle(removed, p.cmd, "rejected", "", m.replyTo)
                          ELSE settle(removed, p.cmd, "resolved", m.target, m.replyTo)
         IN createTargetContinuation(settled, p.cmd)
    ELSE b

\* Target.targetCreated on the control connection
handleTargetCreated(b, m) ==
  IF m.kind = "targetCreated" /\ m.target \notin b.knownPageIdsRef
    THEN [b EXCEPT !.newTabsDetected = @ \cup {m.target}]
    ELSE b

\* handleMessage of sendToPage's executeCommand, for every listener on the socket
RECURSIVE RunMessageListeners(_, _, _, _)
RunMessageListeners(b, ls, m, err) ==
  IF ls = {} THEN b
  ELSE LET l == CHOOSE x \in ls : \A y \in ls : x.cmd <= y.cmd
           next == IF m.kind = "response" /\ m.id = l.id
                     THEN LET removed == [b EXCEPT !.listeners = @ \ {l}] IN
                          IF err THEN settle(removed, l.cmd, "rejected", "", m.replyTo)
                                 ELSE settle(removed, l.cmd, "resolved", m.target, m.replyTo)
                     ELSE b
       IN RunMessageListeners(next, ls \ {l}, m, err)

\* a parse failure that gives up on the commands in flight
parseFailedDropsPending(b, s) ==
  [b EXCEPT !.pendingRequestsRef = {},
            !.parseFailures = Append(@, [sock |-> s,
                                         outstanding |-> Cardinality(b.pendingRequestsRef)
                                                           + Cardinality(b.listeners)])]

\* ws.onmessage of either kind of connection when JSON.parse(event.data)
\* throws: the catch block logs and returns; the 'message' listeners of
\* sendToPage and of the title and favicon queries catch the same error
parseFailed(b, s) ==
  [b EXCEPT !.parseFailures = Append(@, [sock |-> s,
                                         outstanding |-> Cardinality(b.pendingRequestsRef)
                                                           + Cardinality(b.listeners)])]

controlOnMessage(b, m, err) ==
  handleTargetCreated(handlePendingResponse(b, m, err), m)

pageOnMessage(b, m, err) ==
  LET handled == handlePendingResponse(b, m, err) IN
  RunMessageListeners(handled, {l \in handled.listeners : l.sock = m.sock}, m, err)

(***************************************************************************)
(* send, sendToPage and the operations built on them                       *)
(***************************************************************************)
\* a send that takes the command id before it looks at the connection
sendTakesIdFirst(b, method, target) ==
  LET made == NewCommand(b, "send", method)
      cmd == Len(made.commands)
      id == made.messageIdRef
      b1 == nextMessageId(made)
  IN IF ~IsOpen(b1, b1.wsRef)
       THEN settle(b1, cmd, "rejected", "", ByNotConnected)
       ELSE LET b2 == [b1 EXCEPT !.commands[cmd].id = id,
                                 !.commands[cmd].timer = COMMAND_TIMEOUT_MS,
                                 !.pendingRequestsRef = @ \cup {[id |-> id, cmd |-> cmd]}]
            IN wsSend(b2, b2.wsRef, id, cmd, target)

\* send(method, params); target is the id the browser will give a created tab
send(b, method, target) ==
  LET made == NewCommand(b, "send", method)
      cmd == Len(made.commands)
  IN IF ~IsOpen(made, made.wsRef)
       THEN settle(made, cmd, "rejected", "", ByNotConnected)
       ELSE LET id == made.messageIdRef
                b1 == nextMessageId(made)
                b2 == [b1 EXCEPT !.commands[cmd].id = id,
                                 !.commands[cmd].timer = COMMAND_TIMEOUT_MS,
                                 !.pendingRequestsRef = @ \cup {[id |-> id, cmd |-> cmd]}]
            IN wsSend(b2, b2.wsRef, id, cmd, target)

\* a sendToPage that transmits at once on the connection it has just opened
sendToPageWithoutWaiting(b, targetId, method) ==
  LET made == NewCommand(b, "sendToPage", method)
      cmd == Len(made.commands)
      connected == connectToPage(made, targetId)
  IN executeCommand(connected, connected.pageSessionsRef[targetId], cmd)

sendToPage(b, targetId, method) ==
  LET made == NewCommand(b, "sendToPage", method)
      cmd == Len(made.commands)
      pageWs == made.pageSessionsRef[targetId]
  IN IF ~IsOpen(made, pageWs)
       THEN LET connected == connectToPage(made, targetId)
                ws == connected.pageSessionsRef[targetId]
            IN [connected EXCEPT
                  !.openWaiters = @ \cup {[sock |-> ws, cmd |-> cmd]},
                  !.errorWaiters = @ \cup {[sock |-> ws, cmd |-> cmd]}]
       ELSE executeCommand(made, pageWs, cmd)

\* a timeout of send that rejects but leaves the map entry behind
sendTimeoutKeepsEntry(b, cmd) ==
  LET hit == {p \in b.pendingRequestsRef : p.id = b.commands[cmd].id}
      fired == [b EXCEPT !.commands[cmd].timer = NoTimer]
  IN IF hit # {}
       THEN settle(fired, cmd, "rejected", "", ByTimeout)
       ELSE fired

\* the setTimeout callback of send
sendTimeout(b, cmd) ==
  LET hit == {p \in b.pendingRequestsRef : p.id = b.commands[cmd].id}
      fired == [b EXCEPT !.commands[cmd].timer = NoTimer]
  IN IF hit # {}
       THEN settle([fired EXCEPT !.pendingRequestsRef = @ \ hit], cmd, "rejected", "", ByTimeout)
       ELSE fired

\* the setTimeout callback of executeCommand
executeCommandTimeout(b, cmd) ==
  LET fired == [b EXCEPT !.commands[cmd].timer = NoTimer,
                         !.listeners = {l \in @ : l.cmd # cmd}]
  IN settle(fired, cmd, "rejected", "", ByTimeout)

closeTarget(b, targetId) ==
  LET forgotten == [b EXCEPT !.knownPageIdsRef = @ \ {targetId},
                             !.keepAliveIntervalsRef[targetId] = NoSocket]
      pageWs == forgotten.pageSessionsRef[targetId]
      closed == IF pageWs # NoSocket
                  THEN [wsClose(forgotten, pageWs) EXCEPT
                          !.pageSessionsRef[targetId] = NoSocket]
                  ELSE forgotten
  IN send(closed, "Target.closeTarget", "")

RECURSIVE ConnectEach(_, _)
ConnectEach(b, ids) ==
  IF ids = {} THEN b
  ELSE LET pageId == CHOOSE x \in ids : TRUE
           known == [b EXCEPT !.knownPageIdsRef = @ \cup {pageId}]
           next == IF IsOpenOrConnecting(known, known.pageSessionsRef[pageId])
                     THEN known
                     ELSE connectToPage(known, pageId)
       IN ConnectEach(next, ids \ {pageId})

RECURSIVE RemoveEach(_, _)
RemoveEach(b, ids) ==
  IF ids = {} THEN b
  ELSE LET pageId == CHOOSE x \in ids : TRUE
           forgotten == [b EXCEPT !.knownPageIdsRef = @ \ {pageId}]
           ws == forgotten.pageSessionsRef[pageId]
           closed == IF ws # NoSocket
                       THEN [wsClose(forgotten, ws) EXCEPT
                               !.pageSessionsRef[pageId] = NoSocket]
                       ELSE forgotten
       IN RemoveEach([closed EXCEPT !.keepAliveIntervalsRef[pageId] = NoSocket],
                     ids \ {pageId})

ensurePageConnections(b, pageIds) ==
  LET connected == ConnectEach(b, pageIds) IN
  RemoveEach(connected, connected.knownPageIdsRef \ pageIds)

RECURSIVE CloseEach(_, _)
CloseEach(b, ids) ==
  IF ids = {} THEN b
  ELSE LET pageId == CHOOSE x \in ids : TRUE IN
       CloseEach(wsClose(b, b.pageSessionsRef[pageId]), ids \ {pageId})

\* a disconnect that closes the page connections but leaves their timers running
disconnectKeepsTimers(b) ==
  LET closedPages == CloseEach(b, {p \in PageIds : b.pageSessionsRef[p] # NoSocket})
      noPages == [closedPages EXCEPT !.pageSessionsRef = [p \in PageIds |-> NoSocket]]
      noControl == IF noPages.wsRef # NoSocket
                     THEN [wsClose(noPages, noPages.wsRef) EXCEPT !.wsRef = NoSocket]
                     ELSE noPages
  IN [noControl EXCEPT !.currentPageIdRef = NullPage, !.isConnected = FALSE]

disconnect(b) ==
  LET cleared == [b EXCEPT !.keepAliveIntervalsRef = [p \in PageIds |-> NoSocket]]
      closedPages == CloseEach(cleared, {p \in PageIds : cleared.pageSessionsRef[p] # NoSocket})
      noPages == [closedPages EXCEPT !.pageSessionsRef = [p \in PageIds |-> NoSocket]]
      noControl == IF noPages.wsRef # NoSocket
                     THEN [wsClose(noPages, noPages.wsRef) EXCEPT !.wsRef = NoSocket]
                     ELSE noPages
  IN [noControl EXCEPT !.currentPageIdRef = NullPage, !.isConnected = FALSE]

\* one tick of a keep-alive interval on socket s
keepAlivePing(b, s) ==
  IF IsOpen(b, s)
    THEN wsSend(nextMessageId(b), s, b.messageIdRef, 0, "")
    ELSE b

(***************************************************************************)
(* Bridge operations and events                                            *)
(***************************************************************************)
BrInit ==
  /\ sockets = <<>>
  /\ wsRef = NoSocket
  /\ currentPageIdRef = NullPage
  /\ isConnected = FALSE
  /\ messageIdRef \in {1, PAGE_MSG_ID_START - IdHeadroom}
  /\ pendingRequestsRef = {}
  /\ pageSessionsRef = [p \in PageIds |-> NoSocket]
  /\ keepAliveIntervalsRef = [p \in PageIds |-> NoSocket]
  /\ knownPageIdsRef = {}
  /\ commands = <<>>
  /\ listeners = {}
  /\ openWaiters = {}
  /\ errorWaiters = {}
  /\ unanswered = {}
  /\ disconnectedCalls = {}
  /\ cleanLastCloses = {}
  /\ ensuredIds = NeverEnsured
  /\ newTabsDetected = {}
  /\ createdTargets = {}
  /\ parseFailures = <<>>
  /\ wire = <<>>

\* the bridge as constructed
BrIdle == BrInit /\ messageIdRef = 1

IdBase ==
  IF messageIdRef >= PAGE_MSG_ID_START - IdHeadroom
    THEN PAGE_MSG_ID_START - IdHeadroom
    ELSE 1

\* the bounds of the model on what an operation may allocate
WithinBounds(b) ==
  /\ Len(b.sockets) + Len(b.commands) <= MaxObjects
  /\ b.messageIdRef <= IdBase + MaxIds

BrStep(b) == WithinBounds(b) /\ BrCommit(b)

Connect(pageId) ==
  /\ pageId \in PageIds
  /\ BrStep(connect(BridgeState, pageId))

ConnectToPage(pageId) ==
  /\ pageId \in PageIds
  /\ BrStep(connectToPage(BridgeState, pageId))

EnsurePageConnections(pageIds) ==
  /\ pageIds \subseteq PageIds
  /\ BrStep([ensurePageConnections(BridgeState, pageIds) EXCEPT !.ensuredIds = pageIds])

Disconnect ==
  /\ sockets # <<>>
  /\ BrStep(disconnect(BridgeState))

Send ==
  /\ sockets # <<>>
  /\ BrStep(send(BridgeState, "Runtime.evaluate", ""))

SendToPage(targetId) ==
  /\ targetId \in PageIds
  /\ BrStep(sendToPage(BridgeState, targetId, "Runtime.evaluate"))

CloseTarget(targetId) ==
  /\ targetId \in PageIds
  /\ BrStep(closeTarget(BridgeState, targetId))

\* target ids the browser has given out
BrowserTargets ==
  knownPageIdsRef \cup createdTargets \cup newTabsDetected
    \cup {m.target : m \in {x \in unanswered : x.kind = "targetCreated"}}
    \cup {sockets[s].page : s \in DOMAIN sockets}

\* createTarget(url): the browser creates tab t, announces it with
\* Target.targetCreated and answers the command with its id
CreateTarget(t) ==
  /\ t \notin BrowserTargets
  /\ LET sent == send(BridgeState, "Target.createTarget", t)
         cmd == Len(sent.commands)
     IN BrStep(IF sent.commands[cmd].status = "pending"
                 THEN [sent EXCEPT
                         !.createdTargets = @ \cup {t},
                         !.unanswered = @ \cup {[sock |-> sent.wsRef,
                                                 kind |-> "targetCreated", id |-> 0,
                                                 replyTo |-> 0, target |-> t]}]
                 ELSE sent)

\* a page opens tab t itself (target="_blank", window.open)
ExternalTabOpens(t) ==
  /\ t \notin BrowserTargets
  /\ IsOpen(BridgeState, wsRef)
  /\ BrStep([BridgeState EXCEPT
        !.unanswered = @ \cup {[sock |-> wsRef, kind |-> "targetCreated",
                                id |-> 0, replyTo |-> 0, target |-> t]}])

\* the 'open' event of socket s
SocketOpens(s) ==
  /\ sockets[s].readyState = "CONNECTING"
  /\ BrStep(IF sockets[s].kind = "control"
               THEN controlOnOpen(BridgeState, s)
               ELSE pageOnOpen(BridgeState, s))

\* the 'close' event of socket s; a connection that fails or is lost raises
\* 'error' first; nothing is delivered on a closed socket
SocketCloses(s, code) ==
  /\ sockets[s].readyState \in {"CONNECTING", "OPEN", "CLOSING"}
  /\ sockets[s].readyState = "CONNECTING" => code # CLEAN_CLOSE
  /\ LET failed == IF code # CLEAN_CLOSE /\ sockets[s].readyState # "CLOSING"
                     THEN onError(BridgeState, s)
                     ELSE BridgeState
         wasLast == \A x \in DOMAIN sockets :
                      x # s => sockets[x].readyState \notin {"OPEN", "CONNECTING"}
         silent == [failed EXCEPT !.unanswered = {m \in @ : m.sock # s},
                                  !.openWaiters = {w \in @ : w.sock # s},
                                  !.errorWaiters = {w \in @ : w.sock # s},
                                  !.wire[s] = <<>>,
                                  !.cleanLastCloses =
                                     IF code = CLEAN_CLOSE /\ wasLast
                                       THEN @ \cup {sockets[s].kind} ELSE @]
     IN BrStep(IF sockets[s].kind = "control"
                 THEN controlOnClose(silent, s, code)
                 ELSE pageOnClose(silent, s, code))

\* the 'message' event of a socket: a response (with or without error) or a
\* Target.targetCreated notification; responses come in any order, except that
\* those to the start-up commands of one page connection come in the order sent
MessageArrives(m, err) ==
  /\ m \in unanswered
  /\ m.replyTo = 0 =>
       \A x \in unanswered :
         (x.sock = m.sock /\ x.kind = m.kind /\ x.replyTo = 0) => m.id <= x.id
  /\ sockets[m.sock].readyState \in {"OPEN", "CLOSING"}
  /\ err => (m.kind = "response" /\ m.target = "")
  /\ LET taken == [BridgeState EXCEPT !.unanswered = @ \ {m}] IN
     BrStep(IF sockets[m.sock].kind = "control"
              THEN controlOnMessage(taken, m, err)
              ELSE pageOnMessage(taken, m, err))

\* the 'message' event of socket s with data that is not JSON
MalformedArrives(s) ==
  /\ s \in DOMAIN sockets
  /\ sockets[s].readyState \in {"OPEN", "CLOSING"}
  /\ Len(parseFailures) < MaxParseFailures
  /\ BrStep(parseFailed(BridgeState, s))

\* the 30 s timer of command cmd is due
CommandTimeout(cmd) ==
  /\ cmd \in DOMAIN commands
  /\ commands[cmd].timer = 0
  /\ BrStep(IF commands[cmd].via = "send"
               THEN sendTimeout(BridgeState, cmd)
               ELSE executeCommandTimeout(BridgeState, cmd))

\* a keep-alive interval ticks: of a page connection, or of the main connection
PageKeepAlive(pageId) ==
  /\ keepAliveIntervalsRef[pageId] # NoSocket
  /\ IsOpen(BridgeState, keepAliveIntervalsRef[pageId])
  /\ BrStep(keepAlivePing(BridgeState, keepAliveIntervalsRef[pageId]))

MainKeepAlive ==
  /\ isConnected
  /\ IsOpen(BridgeState, wsRef)
  /\ BrStep(keepAlivePing(BridgeState, wsRef))

\* d milliseconds pass
BridgeTimePasses(d) ==
  /\ \E c \in DOMAIN commands : commands[c].timer > 0
  /\ commands' = [c \in DOMAIN commands |->
                    IF commands[c].timer = NoTimer THEN commands[c]
                    ELSE [commands[c] EXCEPT !.timer = Max(@ - d, 0)]]
  /\ UNCHANGED <<sockets, wsRef, currentPageIdRef, isConnected, messageIdRef,
                 pendingRequestsRef, pageSessionsRef, keepAliveIntervalsRef,
                 knownPageIdsRef, listeners, openWaiters, errorWaiters, unanswered,
                 disconnectedCalls, cleanLastCloses, ensuredIds, newTabsDetected,
                 createdTargets, parseFailures, wire>>
  /\ UNCHANGED <<limVars, synVars>>

\* commands, their responses and their timeouts, over the control connection
\* and the page connections sendToPage opens
CommandNext ==
  \/ \E p \in PageIds : Connect(p)
  \/ Send
  \/ \E p \in PageIds : SendToPage(p)
  \/ \E s \in DOMAIN sockets : SocketOpens(s)
  \/ \E s \in DOMAIN sockets, code \in CloseCodes : SocketCloses(s, code)
  \/ \E m \in unanswered, err \in BOOLEAN : MessageArrives(m, err)
  \/ \E c \in DOMAIN commands : CommandTimeout(c)
  \/ BridgeTimePasses(COMMAND_TIMEOUT_MS)

\* the same, with page connections opened ahead of any command
PagedCommandNext ==
  \/ \E p \in PageIds : Connect(p)
  \/ \E p \in PageIds : ConnectToPage(p)
  \/ Send
  \/ \E p \in PageIds : SendToPage(p)
  \/ \E s \in DOMAIN sockets : SocketOpens(s)
  \/ \E s \in DOMAIN sockets, code \in CloseCodes : SocketCloses(s, code)
  \/ \E m \in unanswered, err \in BOOLEAN : MessageArrives(m, err)
  \/ \E c \in DOMAIN commands : CommandTimeout(c)
  \/ BridgeTimePasses(COMMAND_TIMEOUT_MS)

\* tabs created by the bridge and tabs opened by a page
TargetNext ==
  \/ \E p \in PageIds : Connect(p)
  \/ \E t \in PageIds : CreateTarget(t)
  \/ \E t \in PageIds : ExternalTabOpens(t)
  \/ \E s \in DOMAIN sockets : SocketOpens(s)
  \/ \E s \in DOMAIN sockets, code \in CloseCodes : SocketCloses(s, code)
  \/ \E m \in unanswered, err \in BOOLEAN : MessageArrives(m, err)
  \/ \E c \in DOMAIN commands : CommandTimeout(c)
  \/ BridgeTimePasses(COMMAND_TIMEOUT_MS)

\* commands and responses among messages that cannot be parsed
MalformedNext ==
  \/ \E p \in PageIds : Connect(p)
  \/ Send
  \/ \E p \in PageIds : SendToPage(p)
  \/ \E s \in DOMAIN sockets : SocketOpens(s)
  \/ \E m \in unanswered, err \in BOOLEAN : MessageArrives(m, err)
  \/ \E s \in DOMAIN sockets : MalformedArrives(s)

\* everything that puts a command on the wire of the control connection or of
\* a page connection: start-up commands, commands of send and sendToPage and
\* keep-alive pings
WireNext ==
  \/ \E p \in PageIds : Connect(p)
  \/ \E p \in PageIds : ConnectToPage(p)
  \/ Send
  \/ \E p \in PageIds : SendToPage(p)
  \/ \E s \in DOMAIN sockets : SocketOpens(s)
  \/ \E s \in DOMAIN sockets, code \in CloseCodes : SocketCloses(s, code)
  \/ \E m \in unanswered, err \in BOOLEAN : MessageArrives(m, err)
  \/ \E p \in PageIds : PageKeepAlive(p)
  \/ MainKeepAlive

\* commands to pages whose connection is opened when the command is sent
LazyPageNext ==
  \/ \E p \in PageIds : SendToPage(p)
  \/ \E p \in PageIds : ConnectToPage(p)
  \/ \E p \in PageIds : CloseTarget(p)
  \/ \E s \in DOMAIN sockets : SocketOpens(s)
  \/ \E s \in DOMAIN sockets, code \in CloseCodes : SocketCloses(s, code)
  \/ \E m \in unanswered, err \in BOOLEAN : MessageArrives(m, err)

\* the page connections reconciled with the tabs of the session
PageSetNext ==
  \/ \E ids \in SUBSET PageIds : EnsurePageConnections(ids)
  \/ \E p \in PageIds : ConnectToPage(p)
  \/ \E s \in DOMAIN sockets : SocketOpens(s)
  \/ \E s \in DOMAIN sockets, code \in CloseCodes : SocketCloses(s, code)

\* connections opened, closed and lost
ConnectionNext ==
  \/ \E p \in PageIds : Connect(p)
  \/ \E p \in PageIds : ConnectToPage(p)
  \/ Disconnect
  \/ \E s \in DOMAIN sockets : SocketOpens(s)
  \/ \E s \in DOMAIN sockets, code \in CloseCodes : SocketCloses(s, code)

(***************************************************************************)
(* Part III: the interaction synthesizer of useBrowserCDP: the clicks,     *)
(* keydowns and navigations the pages report, turned into Interaction      *)
(* records.                                                                *)
(*                                                                         *)
(* Time is relative, as in Part I: a remembered timestamp is stored as its *)
(* age, capped at the first value from which every comparison the code     *)
(* makes with it has the same outcome. A string is the sequence of its     *)
(* characters, the name of a non-printable key (Enter) being one element.  *)
(* An Interaction keeps its id, type, pageId, element.tagName,             *)
(* element.selector, element.text and data.type.                           *)
(***************************************************************************)
CLICK_DEDUPE_MS == 100
KEYDOWN_DEDUPE_MS == 50
TYPING_MERGE_MS == 3000
NAVIGATION_DEDUPE_MS == 1000
ENRICHMENT_DELAY_MS == 500
LISTENER_CEILING_MS == 5000

\* keys whose name is one character (key.length === 1), and the others
PrintableKeys == {"c", "v", "[", "]"}
Backspace == "Backspace"
NamedKeys == {"Enter", Backspace}
\* the keys handleKeydown ignores
IgnoredKeys == {"Shift", "Control", "Alt", "Meta", "CapsLock"}
Keys == PrintableKeys \cup NamedKeys \cup {"Shift"}
Selectors == {"#a", "#b"}
Urls == {"https://a", "https://b"}
\* the address page pageId navigates to
UrlOf(pageId) == IF pageId = "p1" THEN "https://a" ELSE "https://b"
\* the two deliveries of a page's events: Runtime.bindingCalled on the page
\* connection, and postMessage from the screencast iframe
Sources == {"binding", "screencast"}
ModifierSets == {{}, {"ctrlKey"}, {"altKey", "metaKey"}}
KeydownEvents == [key : Keys, selector : Selectors, modifiers : ModifierSets]
\* letters, alone or with modifiers held, and a modifier key by itself
ShortcutEvents ==
  [key : {"c", "v", "Shift"}, selector : Selectors, modifiers : {{}}]
    \cup [key : {"c"}, selector : Selectors, modifiers : ModifierSets \ {{}}]
\* text typed with brackets, Enter and Backspace
TypingEvents ==
  [key : {"[", "]", "Enter", Backspace}, selector : Selectors, modifiers : {{}}]
\* the page the keys are typed into
FocusedPage == "p1"

NoBuffer == [interactionId |-> 0, text |-> <<>>, lastTimestamp |-> 0, selector |-> ""]
NoKeydown == [key |-> "", timestamp |-> 0]
\* no run of plain keydowns is being typed
NoRun == [selector |-> "", text |-> <<>>, since |-> 0, first |-> 0, accepted |-> TRUE]
\* no click or navigation was delivered yet
NoEvent == [type |-> "none", pageId |-> NullPage, url |-> "", since |-> 0,
            alone |-> TRUE, added |-> <<>>, moved |-> FALSE, calls |-> <<>>]
\* the last event was not a key appended to the typing buffer
NoKey == [selector |-> "", text |-> <<>>]

SynthState ==
  [interactions |-> interactions,
   typingBufferRef |-> typingBufferRef,
   lastNavigationRefreshRef |-> lastNavigationRefreshRef,
   lastClickTimestampRef |-> lastClickTimestampRef,
   lastKeydownRef |-> lastKeydownRef,
   interactionIds |-> interactionIds,
   frameNavigations |-> frameNavigations,
   enrichmentTimers |-> enrichmentTimers,
   enrichmentListeners |-> enrichmentListeners]

SynAssign(s) ==
  /\ interactions' = s.interactions
  /\ typingBufferRef' = s.typingBufferRef
  /\ lastNavigationRefreshRef' = s.lastNavigationRefreshRef
  /\ lastClickTimestampRef' = s.lastClickTimestampRef
  /\ lastKeydownRef' = s.lastKeydownRef
  /\ interactionIds' = s.interactionIds
  /\ frameNavigations' = s.frameNavigations
  /\ enrichmentTimers' = s.enrichmentTimers
  /\ enrichmentListeners' = s.enrichmentListeners

\* String.prototype.endsWith, lastIndexOf (0-based, -1 when absent), substring
endsWith(text, c) == Len(text) > 0 /\ text[Len(text)] = c
lastIndexOf(text, c) ==
  LET at == {i \in DOMAIN text : text[i] = c}
  IN IF at = {} THEN -1 ELSE (CHOOSE i \in at : \A j \in at : j <= i) - 1
substring(text, from, to) == SubSeq(text, from + 1, to)
toUpperCase(key) == CASE key = "c" -> "C" [] key = "v" -> "V" [] OTHER -> key

\* the interaction ids are `${Date.now()}-${random}`: never the same twice
addInteraction(s, type, element, pageId, dataType) ==
  [s EXCEPT
     !.typingBufferRef = NoBuffer,
     !.interactionIds = @ + 1,
     !.interactions = Append(@, [id |-> s.interactionIds + 1,
                                 type |-> type,
                                 pageId |-> pageId,
                                 tagName |-> element.tagName,
                                 selector |-> element.selector,
                                 text |-> element.text,
                                 data |-> dataType])]

\* eventData.target || {tagName: 'CLICK', text: 'click', selector: 'unknown'}
ClickTarget == [tagName |-> "CLICK", text |-> <<"click">>, selector |-> "unknown"]

\* a click event, a click exactly 100 ms after the last one dropped too
clickInclusive(s, pageId) ==
  IF s.lastClickTimestampRef <= CLICK_DEDUPE_MS
    THEN s
    ELSE addInteraction([s EXCEPT !.lastClickTimestampRef = 0],
                        "user_event", ClickTarget, pageId, "click")

\* a click event of a page (either delivery)
click(s, pageId) ==
  IF s.lastClickTimestampRef < CLICK_DEDUPE_MS
    THEN s
    ELSE addInteraction([s EXCEPT !.lastClickTimestampRef = 0],
                        "user_event", ClickTarget, pageId, "click")

\* setInteractions(prev => ...): the interaction of the typing buffer, if it is
\* still in the list, gets the new text
setText(is, interactionId, text) ==
  [i \in DOMAIN is |-> IF is[i].id = interactionId
                         THEN [is[i] EXCEPT !.text = text]
                         ELSE is[i]]

\* modifiers.join('+') of the held modifiers and the key
Combo(e) ==
  LET held == (IF "ctrlKey" \in e.modifiers THEN <<"Ctrl", "+">> ELSE <<>>)
              \o (IF "altKey" \in e.modifiers THEN <<"Alt", "+">> ELSE <<>>)
              \o (IF "metaKey" \in e.modifiers THEN <<"Cmd", "+">> ELSE <<>>)
  IN held \o <<IF e.key \in PrintableKeys THEN toUpperCase(e.key) ELSE e.key>>

\* the keydown is a duplicate of the last accepted one
Duplicate(s, key) ==
  /\ s.lastKeydownRef # NoKeydown
  /\ s.lastKeydownRef.key = key
  /\ s.lastKeydownRef.timestamp < KEYDOWN_DEDUPE_MS

\* slip: <= for <
MergesInclusive(s, selector) ==
  /\ s.typingBufferRef # NoBuffer
  /\ s.typingBufferRef.selector = selector
  /\ s.typingBufferRef.lastTimestamp <= TYPING_MERGE_MS

\* the typing buffer can take another key typed into selector
Merges(s, selector) ==
  /\ s.typingBufferRef # NoBuffer
  /\ s.typingBufferRef.selector = selector
  /\ s.typingBufferRef.lastTimestamp < TYPING_MERGE_MS

\* the key combination, the typing buffer kept
keyCombinationKeepsBuffer(s, e, pageId) ==
  [s EXCEPT
     !.interactionIds = @ + 1,
     !.interactions = Append(@, [id |-> s.interactionIds + 1,
                                 type |-> "user_event",
                                 pageId |-> pageId,
                                 tagName |-> "KEYPRESS",
                                 selector |-> e.selector,
                                 text |-> Combo(e),
                                 data |-> "keypress"])]

\* a key pressed with Ctrl, Alt or Meta held
keyCombination(s, e, pageId) ==
  [s EXCEPT
     !.typingBufferRef = NoBuffer,
     !.interactionIds = @ + 1,
     !.interactions = Append(@, [id |-> s.interactionIds + 1,
                                 type |-> "user_event",
                                 pageId |-> pageId,
                                 tagName |-> "KEYPRESS",
                                 selector |-> e.selector,
                                 text |-> Combo(e),
                                 data |-> "keypress"])]

\* the text Backspace leaves
erased(currentText) ==
  IF endsWith(currentText, "]")
    THEN LET bracketStart == lastIndexOf(currentText, "[")
         IN IF bracketStart # -1
              THEN substring(currentText, 0, bracketStart)
              ELSE SubSeq(currentText, 1, Len(currentText) - 1)
    ELSE SubSeq(currentText, 1, Len(currentText) - 1)

\* slip: an empty buffer is erased too
backspaceOnEmpty(s, e) ==
  IF Merges(s, e.selector)
    THEN LET currentText == erased(s.typingBufferRef.text)
         IN [s EXCEPT
               !.typingBufferRef.text = currentText,
               !.typingBufferRef.lastTimestamp = 0,
               !.interactions = setText(@, s.typingBufferRef.interactionId, currentText)]
    ELSE s

backspace(s, e) ==
  IF Merges(s, e.selector) /\ Len(s.typingBufferRef.text) > 0
    THEN LET currentText == erased(s.typingBufferRef.text)
         IN [s EXCEPT
               !.typingBufferRef.text = currentText,
               !.typingBufferRef.lastTimestamp = 0,
               !.interactions = setText(@, s.typingBufferRef.interactionId, currentText)]
    ELSE s

\* key.length === 1 ? key : `[${key}]`
KeyText(key) == IF key \in PrintableKeys THEN <<key>> ELSE <<"[", key, "]">>

\* the key typed, a merged key replacing the text instead of extending it
typeKeyOverwrites(s, e, pageId) ==
  LET char == KeyText(e.key)
  IN IF Merges(s, e.selector)
       THEN [s EXCEPT
               !.typingBufferRef.text = char,
               !.typingBufferRef.lastTimestamp = 0,
               !.interactions = setText(@, s.typingBufferRef.interactionId, char)]
       ELSE [s EXCEPT
               !.typingBufferRef = [interactionId |-> s.interactionIds + 1,
                                    text |-> char,
                                    lastTimestamp |-> 0,
                                    selector |-> e.selector],
               !.interactionIds = @ + 1,
               !.interactions = Append(@, [id |-> s.interactionIds + 1,
                                           type |-> "user_event",
                                           pageId |-> pageId,
                                           tagName |-> "INPUT",
                                           selector |-> e.selector,
                                           text |-> char,
                                           data |-> "keydown"])]

\* a regular character, or a special key (Enter, Tab, ...)
typeKey(s, e, pageId) ==
  LET char == KeyText(e.key)
  IN IF Merges(s, e.selector)
       THEN LET newText == s.typingBufferRef.text \o char
            IN [s EXCEPT
                  !.typingBufferRef.text = newText,
                  !.typingBufferRef.lastTimestamp = 0,
                  !.interactions = setText(@, s.typingBufferRef.interactionId, newText)]
       ELSE [s EXCEPT
               !.typingBufferRef = [interactionId |-> s.interactionIds + 1,
                                    text |-> char,
                                    lastTimestamp |-> 0,
                                    selector |-> e.selector],
               !.interactionIds = @ + 1,
               !.interactions = Append(@, [id |-> s.interactionIds + 1,
                                           type |-> "user_event",
                                           pageId |-> pageId,
                                           tagName |-> "INPUT",
                                           selector |-> e.selector,
                                           text |-> char,
                                           data |-> "keydown"])]

handleKeydown(s, e, pageId) ==
  IF e.key \in IgnoredKeys THEN s
  ELSE IF Duplicate(s, e.key) THEN s
  ELSE LET t == [s EXCEPT !.lastKeydownRef = [key |-> e.key, timestamp |-> 0]]
       IN IF e.modifiers # {} THEN keyCombination(t, e, pageId)
          ELSE IF e.key = Backspace THEN backspace(t, e)
          ELSE typeKey(t, e, pageId)

\* frame.id of the navigated frame
FrameId == "frame"

\* the navigation notification, the reference time left where it was
frameNavigatedKeepsReference(s, url, pageId) ==
  IF s.lastNavigationRefreshRef > NAVIGATION_DEDUPE_MS
    THEN [addInteraction(s,
                         "frame_navigation",
                         [tagName |-> "FRAME_NAVIGATION",
                          text |-> <<"Navigated to ", url>>,
                          selector |-> FrameId],
                         pageId, "navigation")
            EXCEPT !.frameNavigations = Append(@, [url |-> url, pageId |-> pageId])]
    ELSE s

\* a navigation notification that passed the main-frame test
frameNavigated(s, url, pageId) ==
  IF s.lastNavigationRefreshRef > NAVIGATION_DEDUPE_MS
    THEN [addInteraction([s EXCEPT !.lastNavigationRefreshRef = 0],
                         "frame_navigation",
                         [tagName |-> "FRAME_NAVIGATION",
                          text |-> <<"Navigated to ", url>>,
                          selector |-> FrameId],
                         pageId, "navigation")
            EXCEPT !.frameNavigations = Append(@, [url |-> url, pageId |-> pageId])]
    ELSE s

\* Page.frameNavigated on the page connection ws: an accepted navigation also
\* arms the 500 ms timer of the title and favicon queries
pageFrameNavigated(s, ws, url, pageId) ==
  LET t == frameNavigated(s, url, pageId)
  IN IF s.lastNavigationRefreshRef > NAVIGATION_DEDUPE_MS
       THEN [t EXCEPT !.enrichmentTimers =
                        Append(@, [sock |-> ws, left |-> ENRICHMENT_DELAY_MS])]
       ELSE t

(***************************************************************************)
(* Synthesizer events                                                      *)
(***************************************************************************)
SynInit ==
  /\ interactions = <<>>
  /\ typingBufferRef = NoBuffer
  /\ lastNavigationRefreshRef = NAVIGATION_DEDUPE_MS + 1
  /\ lastClickTimestampRef = CLICK_DEDUPE_MS
  /\ lastKeydownRef = NoKeydown
  /\ interactionIds = 0
  /\ frameNavigations = <<>>
  /\ enrichmentTimers = <<>>
  /\ enrichmentListeners = <<>>
  /\ acceptedClicks = [p \in PageIds |-> CLICK_DEDUPE_MS]
  /\ acceptedNavigations = [p \in PageIds |-> NAVIGATION_DEDUPE_MS + 1]
  /\ lastPageEvent = NoEvent
  /\ acceptedKeydowns = [k \in Keys |-> KEYDOWN_DEDUPE_MS]
  /\ typed = NoRun
  /\ beforeLastKey = NoKey
  /\ enrichmentTriggers = <<>>

\* the bounds of the model on what an event may add
RECURSIVE TypedLength(_)
\* the characters typed into the interactions is
TypedLength(is) ==
  IF is = <<>> THEN 0
  ELSE (IF Head(is).data = "keydown" THEN Len(Head(is).text) ELSE 0)
         + TypedLength(Tail(is))

SynWithinBounds(s) ==
  /\ s.interactionIds <= MaxInteractions
  /\ TypedLength(s.interactions) <= MaxTextLen
  /\ Len(s.typingBufferRef.text) <= MaxTextLen

\* the interactions the step appends
Added == SubSeq(interactions', Len(interactions) + 1, Len(interactions'))

\* an event outside typing ends the run of plain keydowns
Forget ==
  /\ typed' = NoRun
  /\ beforeLastKey' = NoKey

SynStep(s) ==
  /\ SynWithinBounds(s)
  /\ SynAssign(s)
  /\ UNCHANGED <<limVars, brVars>>

\* the open connections to page pageId
OpenPageSockets(pageId) ==
  {ws \in DOMAIN sockets : /\ sockets[ws].kind = "page"
                           /\ sockets[ws].page = pageId
                           /\ sockets[ws].readyState = "OPEN"}

\* the page can deliver an event by this source
Delivers(pageId, source) ==
  /\ pageId \in PageIds
  /\ source \in Sources
  /\ source = "binding" => OpenPageSockets(pageId) # {}

Click(pageId, source) ==
  /\ Delivers(pageId, source)
  /\ SynStep(click(SynthState, pageId))
  /\ acceptedClicks' = IF Len(interactions') > Len(interactions)
                         THEN [acceptedClicks EXCEPT ![pageId] = 0]
                         ELSE acceptedClicks
  /\ lastPageEvent' =
       [type |-> "click", pageId |-> pageId, url |-> "",
        since |-> acceptedClicks[pageId],
        alone |-> \A q \in PageIds \ {pageId} : acceptedClicks[q] >= CLICK_DEDUPE_MS,
        added |-> Added, moved |-> lastClickTimestampRef' # lastClickTimestampRef,
        calls |-> <<>>]
  /\ Forget
  /\ UNCHANGED <<acceptedNavigations, acceptedKeydowns, enrichmentTriggers>>

Keydown(e, pageId, source) ==
  /\ Delivers(pageId, source)
  /\ e \in KeydownEvents
  /\ SynStep(handleKeydown(SynthState, e, pageId))
  /\ LET s == SynthState
         accepted == e.key \notin IgnoredKeys /\ ~Duplicate(s, e.key)
         plain == e.modifiers = {} /\ e.key \notin IgnoredKeys \cup {Backspace}
         fresh == acceptedKeydowns[e.key] >= KEYDOWN_DEDUPE_MS
     IN /\ acceptedKeydowns' = IF accepted THEN [acceptedKeydowns EXCEPT ![e.key] = 0]
                                            ELSE acceptedKeydowns
        /\ typed' =
             IF ~plain THEN NoRun
             ELSE IF /\ typed # NoRun
                     /\ typed.selector = e.selector
                     /\ typed.since < TYPING_MERGE_MS
               THEN [typed EXCEPT !.text = @ \o KeyText(e.key),
                                  !.since = 0,
                                  !.accepted = @ /\ fresh]
             ELSE IF ~Merges(s, e.selector)
               THEN [selector |-> e.selector, text |-> KeyText(e.key), since |-> 0,
                     first |-> s.interactionIds + 1, accepted |-> fresh]
             ELSE NoRun
        /\ Len(typed'.text) <= MaxTextLen
        /\ beforeLastKey' =
             IF plain /\ accepted /\ Merges(s, e.selector)
               THEN [selector |-> e.selector, text |-> s.typingBufferRef.text]
               ELSE NoKey
  /\ UNCHANGED <<acceptedClicks, acceptedNavigations, lastPageEvent,
                 enrichmentTriggers>>

\* a navigation of frame (main: it has no parent frame) of page pageId
FrameNavigated(url, pageId, source, main) ==
  /\ Delivers(pageId, source)
  /\ url \in Urls
  /\ \/ /\ source = "screencast"
        /\ SynStep(frameNavigated(SynthState, url, pageId))
     \/ /\ source = "binding"
        /\ \E ws \in OpenPageSockets(pageId) :
             SynStep(IF main THEN pageFrameNavigated(SynthState, ws, url, pageId)
                             ELSE SynthState)
  /\ acceptedNavigations' = IF Len(frameNavigations') > Len(frameNavigations)
                              THEN [acceptedNavigations EXCEPT ![pageId] = 0]
                              ELSE acceptedNavigations
  /\ lastPageEvent' =
       [type |-> IF main THEN "navigation" ELSE "subframe", pageId |-> pageId,
        url |-> url,
        since |-> acceptedNavigations[pageId],
        alone |-> \A q \in PageIds \ {pageId} :
                    acceptedNavigations[q] > NAVIGATION_DEDUPE_MS,
        added |-> Added,
        moved |-> lastNavigationRefreshRef' # lastNavigationRefreshRef,
        calls |-> SubSeq(frameNavigations', Len(frameNavigations) + 1,
                         Len(frameNavigations'))]
  /\ Forget
  /\ UNCHANGED <<acceptedClicks, acceptedKeydowns, enrichmentTriggers>>

Older(age, d, cap) == IF age + d < cap THEN age + d ELSE cap

\* the queries of the last 5 s
Recent(triggers) == SelectSeq(triggers, LAMBDA t : t.age <= LISTENER_CEILING_MS)

\* d milliseconds pass; a due timer runs before more time passes
SynthTimePasses(d) ==
  /\ \A i \in DOMAIN enrichmentTimers : enrichmentTimers[i].left >= d
  /\ \A i \in DOMAIN enrichmentListeners : enrichmentListeners[i].timer >= d
  /\ lastClickTimestampRef' = Older(lastClickTimestampRef, d, CLICK_DEDUPE_MS)
  /\ lastNavigationRefreshRef' =
       Older(lastNavigationRefreshRef, d, NAVIGATION_DEDUPE_MS + 1)
  /\ lastKeydownRef' = IF lastKeydownRef = NoKeydown THEN NoKeydown
                       ELSE [lastKeydownRef EXCEPT
                               !.timestamp = Older(@, d, KEYDOWN_DEDUPE_MS)]
  /\ typingBufferRef' = IF typingBufferRef = NoBuffer THEN NoBuffer
                        ELSE [typingBufferRef EXCEPT
                                !.lastTimestamp = Older(@, d, TYPING_MERGE_MS + 1)]
  /\ enrichmentTimers' = [i \in DOMAIN enrichmentTimers |->
                            [enrichmentTimers[i] EXCEPT !.left = @ - d]]
  /\ enrichmentListeners' = [i \in DOMAIN enrichmentListeners |->
                               [enrichmentListeners[i] EXCEPT !.timer = @ - d,
                                                              !.age = @ + d]]
  /\ acceptedClicks' = [p \in PageIds |-> Older(acceptedClicks[p], d, CLICK_DEDUPE_MS)]
  /\ acceptedNavigations' =
       [p \in PageIds |-> Older(acceptedNavigations[p], d, NAVIGATION_DEDUPE_MS + 1)]
  /\ acceptedKeydowns' = [k \in Keys |-> Older(acceptedKeydowns[k], d, KEYDOWN_DEDUPE_MS)]
  /\ typed' = IF typed = NoRun THEN NoRun
              ELSE [typed EXCEPT !.since = Older(@, d, TYPING_MERGE_MS + 1)]
  /\ enrichmentTriggers' = Recent([i \in DOMAIN enrichmentTriggers |->
                                      [enrichmentTriggers[i] EXCEPT !.age = @ + d]])
  /\ UNCHANGED <<interactions, interactionIds, frameNavigations, beforeLastKey,
                 lastPageEvent>>
  /\ UNCHANGED <<limVars, brVars>>

(***************************************************************************)
(* Title and favicon enrichment                                            *)
(***************************************************************************)
\* the two Runtime.evaluate queries on connection ws
queryTitleAndFavicon(b, ws) ==
  LET titleMsgId == b.messageIdRef
      faviconMsgId == b.messageIdRef + 1
      taken == nextMessageId(nextMessageId(b))
  IN wsSend(wsSend(taken, ws, titleMsgId, 0, ""), ws, faviconMsgId, 0, "")

\* ws.addEventListener('message', handler) without the timer that removes it
attachListenerLeaked(s, ws, titleMsgId) ==
  [s EXCEPT !.enrichmentListeners =
              Append(@, [sock |-> ws, id |-> titleMsgId, age |-> 0,
                         timer |-> 2 * LISTENER_CEILING_MS])]

\* ws.addEventListener('message', handler) and the timer that removes it
attachListener(s, ws, titleMsgId) ==
  [s EXCEPT !.enrichmentListeners =
              Append(@, [sock |-> ws, id |-> titleMsgId, age |-> 0,
                         timer |-> LISTENER_CEILING_MS])]

Without(seq, i) == SubSeq(seq, 1, i - 1) \o SubSeq(seq, i + 1, Len(seq))

\* if (ws.readyState === WebSocket.OPEN) { ... }, after synthesizer state s
EnrichStep(ws, s) ==
  LET b == BridgeState
      open == ws # NoSocket /\ IsOpen(b, ws)
      queried == IF open THEN queryTitleAndFavicon(b, ws) ELSE b
      attached == IF open THEN attachListener(s, ws, b.messageIdRef) ELSE s
  IN /\ queried.messageIdRef <= IdBase + 2 * MaxEnrichments
     /\ BrAssign(queried)
     /\ SynAssign(attached)
     /\ enrichmentTriggers' = IF ws # NoSocket
                                THEN Append(enrichmentTriggers, [sock |-> ws, age |-> 0])
                                ELSE enrichmentTriggers
     /\ UNCHANGED histVars
     /\ UNCHANGED limVars

\* Page.loadEventFired or Page.domContentEventFired on page connection ws
PageLoadEvent(ws) ==
  /\ ws \in DOMAIN sockets
  /\ sockets[ws].kind = "page"
  /\ sockets[ws].readyState \in {"OPEN", "CLOSING"}
  /\ EnrichStep(ws, SynthState)

\* screencast:page-loaded for page pageId
ScreencastPageLoaded(pageId) ==
  /\ pageId \in PageIds
  /\ EnrichStep(pageSessionsRef[pageId], SynthState)

\* the 500 ms timer of an accepted navigation is due
EnrichmentTimerFires(i) ==
  /\ i \in DOMAIN enrichmentTimers
  /\ enrichmentTimers[i].left = 0
  /\ EnrichStep(enrichmentTimers[i].sock,
                [SynthState EXCEPT !.enrichmentTimers = Without(@, i)])

\* the 5 s timer of a response listener is due: removeEventListener
ListenerExpires(i) ==
  /\ i \in DOMAIN enrichmentListeners
  /\ enrichmentListeners[i].timer = 0
  /\ SynAssign([SynthState EXCEPT !.enrichmentListeners = Without(@, i)])
  /\ UNCHANGED <<histVars, enrichmentTriggers>>
  /\ UNCHANGED <<limVars, brVars>>

(***************************************************************************)
(* Next-state relations of the synthesizer                                 *)
(***************************************************************************)
\* the pause between two events: within a de-duplication window, or longer
ClickGap == CLICK_DEDUPE_MS \div 2
NavigationGap == NAVIGATION_DEDUPE_MS \div 2
KeyGap == (3 * KEYDOWN_DEDUPE_MS) \div 5
TypingPause == TYPING_MERGE_MS - KeyGap

\* clicks and navigations of the pages
PageEventNext ==
  \/ \E p \in PageIds, src \in Sources : Click(p, src)
  \/ \E p \in PageIds, src \in Sources, main \in BOOLEAN :
       FrameNavigated(UrlOf(p), p, src, main)
  \/ \E i \in DOMAIN enrichmentTimers : EnrichmentTimerFires(i)
  \/ \E i \in DOMAIN enrichmentListeners : ListenerExpires(i)
  \/ lastClickTimestampRef < CLICK_DEDUPE_MS /\ SynthTimePasses(ClickGap)
  \/ SynthTimePasses(NavigationGap)

\* the time to the next due timer of the enrichment
NextDue ==
  LET due == {enrichmentTimers[i].left : i \in DOMAIN enrichmentTimers}
               \cup {enrichmentListeners[i].timer : i \in DOMAIN enrichmentListeners}
  IN CHOOSE d \in due : \A o \in due : d <= o

\* time passes until the next timer is due
TimerDue ==
  /\ enrichmentTimers # <<>> \/ enrichmentListeners # <<>>
  /\ NextDue > 0
  /\ SynthTimePasses(NextDue)

\* the next keydown comes within the de-duplication window of the last
KeyFollows ==
  /\ lastKeydownRef # NoKeydown
  /\ lastKeydownRef.timestamp < KEYDOWN_DEDUPE_MS
  /\ typingBufferRef.lastTimestamp < KEYDOWN_DEDUPE_MS
  /\ SynthTimePasses(KeyGap)

\* letters and keyboard shortcuts
KeyboardNext ==
  \/ \E e \in ShortcutEvents : Keydown(e, FocusedPage, "screencast")
  \/ KeyFollows

\* text typed and erased
TypingNext ==
  \/ \E e \in TypingEvents : Keydown(e, FocusedPage, "screencast")
  \/ KeyFollows
  \/ SynthTimePasses(TypingPause)

\* page connections, the load and navigation events they deliver, the responses
\* to the queries and the timers
EnrichmentNext ==
  \/ \E s \in DOMAIN sockets, code \in CloseCodes : SocketCloses(s, code)
  \/ \E ws \in DOMAIN sockets : PageLoadEvent(ws)
  \/ \E p \in PageIds : ScreencastPageLoaded(p)
  \/ FrameNavigated(UrlOf(FocusedPage), FocusedPage, "binding", TRUE)
  \/ \E i \in DOMAIN enrichmentTimers : EnrichmentTimerFires(i)
  \/ \E i \in DOMAIN enrichmentListeners : ListenerExpires(i)
  \/ \E m \in unanswered, err \in BOOLEAN :
       (\A n \in unanswered : n.id >= m.id) /\ MessageArrives(m, err)
  \/ lastNavigationRefreshRef <= NAVIGATION_DEDUPE_MS /\ SynthTimePasses(NavigationGap)
  \/ TimerDue

vars == <<limVars, brVars, synVars>>

\* the limiter as constructed by getLimiter(): the default budgets
LimIdle ==
  /\ LimInit
  /\ maxCreatesPerMinute = Min(DEFAULT_MAX_CREATES_PER_MINUTE, MaxCreatesBound)
  /\ maxConcurrentSessions = Min(DEFAULT_MAX_CONCURRENT_SESSIONS, MaxConcurrentBound)

\* the limiter with any budgets, beside an idle bridge
LimiterInit == LimInit /\ BrIdle /\ SynInit

\* the bridge as constructed, beside an idle limiter
BridgeInit == LimIdle /\ BrIdle /\ SynInit

\* the bridge after any number of earlier commands, beside an idle limiter
UsedBridgeInit == LimIdle /\ BrInit /\ SynInit

\* the bridge as constructed, as a value
IdleBridge ==
  [sockets |-> <<>>,
   wsRef |-> NoSocket,
   currentPageIdRef |-> NullPage,
   isConnected |-> FALSE,
   messageIdRef |-> 1,
   pendingRequestsRef |-> {},
   pageSessionsRef |-> [p \in PageIds |-> NoSocket],
   keepAliveIntervalsRef |-> [p \in PageIds |-> NoSocket],
   knownPageIdsRef |-> {},
   commands |-> <<>>,
   listeners |-> {},
   openWaiters |-> {},
   errorWaiters |-> {},
   unanswered |-> {},
   disconnectedCalls |-> {},
   cleanLastCloses |-> {},
   ensuredIds |-> NeverEnsured,
   newTabsDetected |-> {},
   createdTargets |-> {},
   parseFailures |-> <<>>,
   wire |-> <<>>]

\* the bridge after connectToPage of both pages, both connections open
ConnectedBridge ==
  LET first == pageOnOpen(connectToPage(IdleBridge, "p1"), 1)
  IN pageOnOpen(connectToPage(first, "p2"), 2)

\* the synthesizer as constructed, the pages of the session connected
ConnectedInit ==
  /\ LimIdle
  /\ sockets = ConnectedBridge.sockets
  /\ wsRef = ConnectedBridge.wsRef
  /\ currentPageIdRef = ConnectedBridge.currentPageIdRef
  /\ isConnected = ConnectedBridge.isConnected
  /\ messageIdRef = ConnectedBridge.messageIdRef
  /\ pendingRequestsRef = ConnectedBridge.pendingRequestsRef
  /\ pageSessionsRef = ConnectedBridge.pageSessionsRef
  /\ keepAliveIntervalsRef = ConnectedBridge.keepAliveIntervalsRef
  /\ knownPageIdsRef = ConnectedBridge.knownPageIdsRef
  /\ commands = ConnectedBridge.commands
  /\ listeners = ConnectedBridge.listeners
  /\ openWaiters = ConnectedBridge.openWaiters
  /\ errorWaiters = ConnectedBridge.errorWaiters
  /\ unanswered = ConnectedBridge.unanswered
  /\ disconnectedCalls = ConnectedBridge.disconnectedCalls
  /\ cleanLastCloses = ConnectedBridge.cleanLastCloses
  /\ ensuredIds = ConnectedBridge.ensuredIds
  /\ newTabsDetected = ConnectedBridge.newTabsDetected
  /\ createdTargets = ConnectedBridge.createdTargets
  /\ parseFailures = ConnectedBridge.parseFailures
  /\ wire = ConnectedBridge.wire
  /\ SynInit

\* every public limiter operation, in any order
Spec == LimiterInit /\ [][LimNext]_vars

\* leases only: no session is registered out of band
LeaseSpec == LimiterInit /\ [][LeaseNext]_vars

\* leases only, with the scheduling the claim on progress assumes: time passes,
\* a due timer fires, an open lease is eventually confirmed or cancelled, an
\* active session is eventually released
FairLeaseSpec ==
  /\ LeaseSpec
  /\ WF_vars(\E d \in TimeSteps : TimePasses(d))
  /\ WF_vars(processTimerFires)
  /\ WF_vars(\E r \in Requests :
               /\ leases[r] = "granted"
               /\ \/ cancel(r)
                  \/ \E s \in SessionIds \cup {EmptyId} : confirmCreated(r, s))
  /\ WF_vars(\E s \in SessionIds : releaseActiveSession(s))

CommandSpec == UsedBridgeInit /\ [][CommandNext]_vars

PagedCommandSpec == UsedBridgeInit /\ [][PagedCommandNext]_vars

TargetSpec == BridgeInit /\ [][TargetNext]_vars

PageSetSpec == BridgeInit /\ [][PageSetNext]_vars

MalformedSpec == BridgeInit /\ [][MalformedNext]_vars

LazyPageSpec == BridgeInit /\ [][LazyPageNext]_vars

WireSpec == BridgeInit /\ [][WireNext]_vars

ConnectionSpec == BridgeInit /\ [][ConnectionNext]_vars

PageEventSpec == ConnectedInit /\ [][PageEventNext]_vars

KeyboardSpec == ConnectedInit /\ [][KeyboardNext]_vars

TypingSpec == ConnectedInit /\ [][TypingNext]_vars

EnrichmentSpec == ConnectedInit /\ [][EnrichmentNext]_vars

(***************************************************************************)
(* Claims on the limiter                                                   *)
(***************************************************************************)
Granted(r) == leases[r] \in {"granted", "finalized"}
UnexpiredGrants == SelectSeq(grantLog, LAMBDA a : a < CREATE_WINDOW_MS)

\* C1: without out-of-band registration, active sessions plus pending
\* reservations never exceed maxConcurrentSessions.
C1_ConcurrencyBudget ==
  Cardinality(activeSessionIds) + pendingReservations <= maxConcurrentSessions

C1_Witness ==
  /\ Cardinality(activeSessionIds) + pendingReservations = maxConcurrentSessions
  /\ activeSessionIds # {}
  /\ pendingReservations > 0
  /\ Len(queue) > 0

\* C2: the leases granted within the trailing window number at most
\* maxCreatesPerMinute, and createTimestamps after pruning is exactly the
\* unexpired grants.
C2_RateBudget ==
  /\ Len(UnexpiredGrants) <= maxCreatesPerMinute
  /\ pruneCreateTimestamps(createTimestamps) = UnexpiredGrants

C2_Witness ==
  /\ Len(UnexpiredGrants) = maxCreatesPerMinute
  /\ Len(grantLog) > maxCreatesPerMinute
  /\ Len(queue) > 0

LimiterObservable ==
  <<pruneCreateTimestamps(createTimestamps), activeSessionIds, pendingReservations,
    queue, processTimer, leases>>

\* C3: a lease decrements pendingReservations exactly once, on its first
\* confirmCreated or cancel; a later call on it changes nothing (its session
\* id is not added, no reservation is released, the queue is not touched).
C3_FinalizeOnce ==
  /\ [](\A r \in Requests :
          decrements[r] = IF leases[r] = "finalized" THEN 1 ELSE 0)
  /\ [][\A r \in Requests :
          (/\ leases[r] = "finalized"
           /\ \/ cancel(r)
              \/ \E s \in SessionIds \cup {EmptyId} : confirmCreated(r, s))
          => UNCHANGED LimiterObservable]_vars

C3_Witness ==
  /\ repeatCalls
  /\ Len(queue) > 0
  /\ activeSessionIds = {}
  /\ pendingReservations > 0

\* C4: with maxConcurrentSessions = 1 and nothing registered, a later request
\* holds a lease only once every earlier request's lease was confirmed or
\* cancelled.
C4_SecondWaitsForFirst ==
  maxConcurrentSessions = 1 =>
    \A i, j \in Requests : (i < j /\ Granted(j)) => leases[i] = "finalized"

C4_Witness ==
  /\ maxConcurrentSessions = 1
  /\ leases[1] = "finalized"
  /\ leases[2] = "granted"
  /\ leases[3] = "queued"

\* C5: under the fair scheduling, every queued request is eventually granted
\* a lease.
C5_QueuedEventuallyGranted ==
  []<>(\A r \in Requests : leases[r] # "queued")

C5_Witness ==
  /\ maxCreatesPerMinute = 1
  /\ leases[2] = "granted"
  /\ leases[3] = "queued"
  /\ processTimer # NoTimer

(***************************************************************************)
(* Claims on the protocol bridge                                           *)
(***************************************************************************)
\* what a caller of the hook can observe of a promise
Settlement(c) == <<commands[c].status, commands[c].result, commands[c].settledBy>>
Settlements == [c \in DOMAIN commands |-> Settlement(c)]

\* the state of the hook, without the timers and the messages in flight
BridgeObservable ==
  <<sockets, wsRef, currentPageIdRef, isConnected, messageIdRef, pendingRequestsRef,
    pageSessionsRef, keepAliveIntervalsRef, knownPageIdsRef, listeners, openWaiters,
    errorWaiters, disconnectedCalls, newTabsDetected, Settlements>>

\* the command was transmitted and its 30 s timer has fired
TimerFired(c) == commands[c].id # 0 /\ commands[c].timer = NoTimer

\* C6: a command issued by send is settled by the response to that command and
\* by no other message (otherwise only by its timeout or the not-connected
\* rejection).
C6_SettledByOwnResponse ==
  \A c \in DOMAIN commands :
    commands[c].via = "send" =>
      commands[c].settledBy \in {NotSettled, ByTimeout, ByNotConnected, c}

\* C7: once the timer of a transmitted command has fired, the command is
\* settled and has no map entry and no response listener; a timer that fires on
\* a pending command rejects it; a settled command is never settled again; a
\* response to a command whose timer has fired changes nothing; a timer that
\* fires after the command's response settled it changes nothing.
C7_TimeoutOnce ==
  /\ [](\A c \in DOMAIN commands :
          TimerFired(c) =>
            /\ commands[c].status # "pending"
            /\ ~\E p \in pendingRequestsRef : p.cmd = c
            /\ ~\E l \in listeners : l.cmd = c)
  /\ [][\A c \in DOMAIN commands :
          (commands[c].status = "pending" /\ CommandTimeout(c))
            => (commands'[c].status = "rejected" /\ commands'[c].settledBy = ByTimeout)]_vars
  /\ [][\A c \in DOMAIN commands :
          commands[c].status # "pending" => Settlement(c)' = Settlement(c)]_vars
  /\ [][\A m \in unanswered, err \in BOOLEAN :
          (/\ m.replyTo \in DOMAIN commands
           /\ TimerFired(m.replyTo)
           /\ MessageArrives(m, err))
            => UNCHANGED BridgeObservable]_vars
  /\ [][\A c \in DOMAIN commands :
          (commands[c].settledBy = c /\ CommandTimeout(c))
            => UNCHANGED BridgeObservable]_vars

\* no connection was ever closed, so every response missing from `unanswered`
\* was delivered: one command timed out and then had its response delivered,
\* another was settled by its response and then had its timer fire
C7_Witness ==
  /\ \A s \in DOMAIN sockets : sockets[s].readyState = "OPEN"
  /\ \E c, d \in DOMAIN commands :
       /\ commands[c].settledBy = ByTimeout
       /\ TimerFired(c)
       /\ ~\E m \in unanswered : m.replyTo = c
       /\ commands[d].settledBy = d
       /\ TimerFired(d)

\* C8: for one loss of the session's connections onWebSocketDisconnected is
\* invoked at most once: at most one of the calls made since the session last
\* had no connection comes from the close of an open connection.
C8_OncePerLoss == Cardinality({c \in disconnectedCalls : c.was = "OPEN"}) <= 1

\* C9: a close event with code 1000, on a page connection or on the control
\* connection, does not invoke onWebSocketDisconnected.
C9_CleanCloseSilent ==
  [][\A s \in DOMAIN sockets :
       disconnectedCalls' # disconnectedCalls => ~SocketCloses(s, CLEAN_CLOSE)]_vars

\* a control connection and a page connection each closed with code 1000 as the
\* last open connection, and no call was made
C9_Witness ==
  /\ cleanLastCloses = {"control", "page"}
  /\ disconnectedCalls = {}

\* C10: onNewTabDetected is never invoked with the id of a tab created through
\* createTarget.
C10_CreatedTabsNotReported == newTabsDetected \cap createdTargets = {}

\* page p has a connection that is open or connecting
LivePage(p) ==
  \E s \in DOMAIN sockets :
    /\ sockets[s].kind = "page"
    /\ sockets[s].page = p
    /\ sockets[s].readyState \in {"OPEN", "CONNECTING"}

\* C11: ensurePageConnections called again with the same ids, which are the
\* known ids and each have an open or connecting connection, creates and closes
\* no connection and leaves the known ids, the page-connection map and the
\* keep-alive timers unchanged.
C11_EnsureAgainNoOp ==
  [][\A ids \in SUBSET PageIds :
       (/\ ensuredIds = ids
        /\ knownPageIdsRef = ids
        /\ \A p \in ids : LivePage(p)
        /\ EnsurePageConnections(ids))
         => UNCHANGED <<sockets, knownPageIdsRef, pageSessionsRef,
                        keepAliveIntervalsRef>>]_vars

\* C12: after ensurePageConnections(ids) the known ids are exactly ids, and
\* every id known before and absent from ids has no open or connecting
\* connection, no entry in the page-connection map and no keep-alive timer.
C12_EnsureReconciles ==
  [][\A ids \in SUBSET PageIds :
       EnsurePageConnections(ids) =>
         /\ knownPageIdsRef' = ids
         /\ \A p \in knownPageIdsRef \ ids :
              /\ pageSessionsRef'[p] = NoSocket
              /\ keepAliveIntervalsRef'[p] = NoSocket
              /\ ~LivePage(p)']_vars

\* socket s has been asked to close, or is closed
AskedToClose(s) == s # NoSocket => sockets'[s].readyState \in {"CLOSING", "CLOSED"}

\* C13: after disconnect() the page-connection map is empty, every connection
\* the map and wsRef held has been asked to close, no keep-alive timer is
\* registered, wsRef is absent and isConnected is false.
C13_DisconnectClears ==
  [][Disconnect =>
       /\ \A p \in PageIds : pageSessionsRef'[p] = NoSocket
       /\ \A p \in PageIds : keepAliveIntervalsRef'[p] = NoSocket
       /\ \A p \in PageIds : AskedToClose(pageSessionsRef[p])
       /\ AskedToClose(wsRef)
       /\ wsRef' = NoSocket
       /\ ~isConnected']_vars

\* disconnect() was called with the control connection and a page connection
\* open and a keep-alive timer running; both are closing now
C13_Witness ==
  /\ wsRef = NoSocket
  /\ ~isConnected
  /\ \A p \in PageIds : pageSessionsRef[p] = NoSocket /\ keepAliveIntervalsRef[p] = NoSocket
  /\ \E s, t \in DOMAIN sockets :
       /\ sockets[s].kind = "control" /\ sockets[s].readyState = "CLOSING"
       /\ sockets[t].kind = "page" /\ sockets[t].readyState = "CLOSING"
       /\ \E m \in unanswered : m.sock = t

(***************************************************************************)
(* Part III claims                                                         *)
(***************************************************************************)
\* C14: while the clicks come from one page (no other page had a click
\* accepted within the window), a click less than 100 ms after the previously
\* accepted click adds no interaction and leaves the reference time alone, and
\* a click 100 ms or more after it adds exactly one click interaction.
C14_ClickDedupe ==
  (lastPageEvent.type = "click" /\ lastPageEvent.alone)
    => IF lastPageEvent.since < CLICK_DEDUPE_MS
         THEN lastPageEvent.added = <<>> /\ ~lastPageEvent.moved
         ELSE /\ Len(lastPageEvent.added) = 1
              /\ lastPageEvent.added[1].data = "click"
              /\ lastPageEvent.added[1].pageId = lastPageEvent.pageId

\* two clicks on one page were accepted, a third click 50 ms after the second
\* was dropped
C14_Witness ==
  /\ Len(interactions) = 2
  /\ \A i \in DOMAIN interactions :
       /\ interactions[i].data = "click"
       /\ interactions[i].pageId = lastPageEvent.pageId
  /\ lastPageEvent.type = "click"
  /\ lastPageEvent.alone
  /\ lastPageEvent.since = ClickGap
  /\ lastPageEvent.added = <<>>

\* C15: a keydown for key K that arrives less than 50 ms after the most
\* recent accepted keydown for K changes neither the interactions nor the
\* typing buffer, whatever keydowns for other keys were accepted in between.
\* lastKeydownRef remembers one keydown only, so a keydown for another key
\* in between makes the code accept K again.
C15_KeydownDedupe ==
  [][\A e \in ShortcutEvents :
       (/\ Keydown(e, FocusedPage, "screencast")
        /\ e.key \notin IgnoredKeys
        /\ acceptedKeydowns[e.key] < KEYDOWN_DEDUPE_MS)
         => UNCHANGED <<interactions, typingBufferRef>>]_vars

\* C16: an accepted keydown with ctrlKey, altKey or metaKey held leaves every
\* existing interaction as it was, appends exactly one interaction whose
\* text is the key combination, and empties the typing buffer; the typing
\* buffer stays empty until a plain keydown, which then starts a new
\* interaction whatever its selector.
C16_ComboStandsAlone ==
  /\ [][\A e \in ShortcutEvents :
          (/\ e.key \notin IgnoredKeys
           /\ ~Duplicate(SynthState, e.key)
           /\ lastKeydownRef' = [key |-> e.key, timestamp |-> 0]
           /\ Keydown(e, FocusedPage, "screencast"))
            => /\ e.modifiers # {}
                  => /\ Len(interactions') = Len(interactions) + 1
                     /\ SubSeq(interactions', 1, Len(interactions)) = interactions
                     /\ interactions'[Len(interactions')].text = Combo(e)
                     /\ interactions'[Len(interactions')].data = "keypress"
                     /\ typingBufferRef' = NoBuffer
               /\ (/\ e.modifiers = {}
                   /\ e.key # Backspace
                   /\ interactions # <<>>
                   /\ interactions[Len(interactions)].data = "keypress")
                  => /\ Len(interactions') = Len(interactions) + 1
                     /\ SubSeq(interactions', 1, Len(interactions)) = interactions
                     /\ interactions'[Len(interactions')].text = KeyText(e.key)]_vars
  /\ [](\A i \in DOMAIN interactions :
          (interactions[i].data = "keypress" /\ i = Len(interactions))
            => typingBufferRef = NoBuffer)

C16_Witness ==
  /\ Len(interactions) = 2
  /\ interactions[1].data = "keydown"
  /\ interactions[1].text = <<"c">>
  /\ interactions[2].data = "keypress"
  /\ interactions[2].text = <<"Ctrl", "+", "C">>
  /\ interactions[2].selector = interactions[1].selector
  /\ typingBufferRef = NoBuffer

\* the run of plain keydowns recorded in typed is one interaction, created by
\* its first keydown, whose text and the typing buffer's text are the
\* concatenation of the keys typed so far
RunIsOneInteraction ==
  /\ typingBufferRef # NoBuffer
  /\ typingBufferRef.interactionId = typed.first
  /\ typingBufferRef.selector = typed.selector
  /\ typingBufferRef.text = typed.text
  /\ interactionIds = typed.first
  /\ Len(interactions) = typed.first
  /\ interactions[typed.first].id = typed.first
  /\ interactions[typed.first].text = typed.text
  /\ interactions[typed.first].selector = typed.selector

\* a plain keydown after a pause of the merge window or more appends a second
\* interaction and leaves the earlier ones unchanged
PauseStartsSecond ==
  (/\ typed # NoRun
   /\ typed.since >= TYPING_MERGE_MS
   /\ typed' # NoRun
   /\ typed'.since = 0)
    => /\ Len(interactions') = Len(interactions) + 1
       /\ SubSeq(interactions', 1, Len(interactions)) = interactions
       /\ interactions'[Len(interactions')].text = typed'.text
       /\ typed'.first = typed.first + 1

\* C17 as stated: for any run of plain keydowns on one selector, each within
\* the merge window of the one before and nothing else in between, exactly
\* one interaction is created and after each keydown its text is the
\* concatenation of all the keys typed; a plain keydown after a longer pause
\* creates a second interaction and leaves the first unchanged.
C17_TypingMergesAnyRun ==
  /\ [](typed # NoRun => RunIsOneInteraction)
  /\ [][PauseStartsSecond]_vars

\* C17, amended: the same, for the runs in which no keydown repeats a key
\* less than 50 ms after the most recent accepted keydown for that key (such a
\* keydown is dropped by the keydown de-duplication).
C17_TypingMerges ==
  /\ []((typed # NoRun /\ typed.accepted) => RunIsOneInteraction)
  /\ [][(typed.accepted /\ typed'.accepted) => PauseStartsSecond]_vars

C17_Witness ==
  /\ Len(interactions) = 2
  /\ interactions[1].data = "keydown"
  /\ interactions[1].text = <<"[", "]">>
  /\ interactions[2].data = "keydown"
  /\ interactions[2].selector = interactions[1].selector
  /\ typed # NoRun
  /\ typed.accepted
  /\ typed.first = 2
  /\ typed.text = interactions[2].text

\* C18: Backspace removes exactly the last appended unit: when a plain key K
\* was appended to the buffer text T and Backspace follows on the same
\* selector within the merge window, the buffer text and the interaction's
\* text are T again, whether K is one character or a bracketed token.
\* The code finds the unit by the look of the text, so a typed ']' is taken
\* for the end of a token.
C18_BackspaceUndoesLastKey ==
  [][\A e \in TypingEvents :
       (/\ Keydown(e, FocusedPage, "screencast")
        /\ e.key = Backspace
        /\ ~Duplicate(SynthState, e.key)
        /\ beforeLastKey # NoKey
        /\ e.selector = beforeLastKey.selector
        /\ Merges(SynthState, e.selector))
         => /\ typingBufferRef'.text = beforeLastKey.text
            /\ \A i \in DOMAIN interactions' :
                 interactions'[i].id = typingBufferRef.interactionId
                   => interactions'[i].text = beforeLastKey.text]_vars

\* C19: while the navigations come from one page (no other page had a
\* navigation accepted inside the window), a main-frame navigation
\* notification less than 1000 ms after the previously accepted one adds no
\* interaction, makes no onFrameNavigation call and leaves the reference
\* time alone; one more than 1000 ms after it (the first one included) adds
\* exactly one frame_navigation interaction carrying its URL and makes
\* exactly one onFrameNavigation call.
C19_NavigationDedupe ==
  (lastPageEvent.type = "navigation" /\ lastPageEvent.alone)
    => /\ lastPageEvent.since < NAVIGATION_DEDUPE_MS
            => /\ lastPageEvent.added = <<>>
               /\ lastPageEvent.calls = <<>>
               /\ ~lastPageEvent.moved
       /\ lastPageEvent.since > NAVIGATION_DEDUPE_MS
            => /\ Len(lastPageEvent.added) = 1
               /\ lastPageEvent.added[1].type = "frame_navigation"
               /\ lastPageEvent.added[1].pageId = lastPageEvent.pageId
               /\ lastPageEvent.added[1].text = <<"Navigated to ", lastPageEvent.url>>
               /\ lastPageEvent.calls
                    = <<[url |-> lastPageEvent.url, pageId |-> lastPageEvent.pageId]>>

C19_Witness ==
  /\ lastPageEvent.type = "navigation"
  /\ lastPageEvent.alone
  /\ lastPageEvent.since = NavigationGap
  /\ lastPageEvent.added = <<>>
  /\ Len(interactions) = 2
  /\ \A i \in DOMAIN interactions :
       /\ interactions[i].type = "frame_navigation"
       /\ interactions[i].pageId = lastPageEvent.pageId
  /\ Len(frameNavigations) = 2

\* C20: every response listener of a title/favicon query is removed no later
\* than 5 seconds after it was attached, whether or not a response arrived,
\* so the listeners attached to a connection are never more than the
\* title/favicon queries made on it in the preceding 5 seconds.
C20_ListenersExpire ==
  /\ \A i \in DOMAIN enrichmentListeners :
       /\ enrichmentListeners[i].age <= LISTENER_CEILING_MS
       /\ enrichmentListeners[i].sock \in DOMAIN sockets
  /\ \A ws \in DOMAIN sockets :
       Cardinality({i \in DOMAIN enrichmentListeners : enrichmentListeners[i].sock = ws})
         <= Cardinality({i \in DOMAIN enrichmentTriggers :
                           /\ enrichmentTriggers[i].sock = ws
                           /\ enrichmentTriggers[i].age <= LISTENER_CEILING_MS})

C20_Witness ==
  /\ Len(enrichmentListeners) = 2
  /\ enrichmentListeners[1].sock = enrichmentListeners[2].sock
  /\ enrichmentListeners[1].age = LISTENER_CEILING_MS
  /\ enrichmentListeners[2].age < LISTENER_CEILING_MS
  /\ \A m \in unanswered : m.id # enrichmentListeners[1].id

(***************************************************************************)
(* Claims on the bridge, continued                                         *)
(***************************************************************************)
\* the step is a call of send: it made the promise of a new send command
SendCalled ==
  /\ Len(commands') = Len(commands) + 1
  /\ commands'[Len(commands')].via = "send"

\* C21: send called while the control connection is absent or not open
\* rejects at once and changes nothing else: no command id is consumed, no
\* pending entry is added, no timeout is armed, nothing is transmitted and
\* no connection is opened or closed.
C21_SendNotConnected ==
  [][(SendCalled /\ ~IsOpen(BridgeState, wsRef))
       => /\ commands'[Len(commands')].status = "rejected"
          /\ commands'[Len(commands')].settledBy = ByNotConnected
          /\ commands'[Len(commands')].id = 0
          /\ commands'[Len(commands')].timer = NoTimer
          /\ SubSeq(commands', 1, Len(commands)) = commands
          /\ UNCHANGED <<sockets, wsRef, currentPageIdRef, isConnected, messageIdRef,
                         pendingRequestsRef, pageSessionsRef, keepAliveIntervalsRef,
                         knownPageIdsRef, listeners, openWaiters, errorWaiters,
                         unanswered, disconnectedCalls, newTabsDetected, wire>>]_vars

C21_Witness ==
  /\ wsRef # NoSocket
  /\ sockets[wsRef].readyState = "CONNECTING"
  /\ commands # <<>>
  /\ commands[Len(commands)].via = "send"
  /\ commands[Len(commands)].settledBy = ByNotConnected
  /\ pendingRequestsRef = {}
  /\ unanswered = {}

\* C22: a message whose payload fails to parse, on the control connection
\* or on a page connection, is discarded: the pending-command map, the
\* listeners, the connections, the promises, the interactions and the typing
\* buffer are unchanged and no callback is called; a response that arrives
\* after it still settles the command it answers.
C22_MalformedDiscarded ==
  [][/\ parseFailures' # parseFailures
          => UNCHANGED <<sockets, wsRef, currentPageIdRef, isConnected, messageIdRef,
                         pendingRequestsRef, pageSessionsRef, keepAliveIntervalsRef,
                         knownPageIdsRef, commands, listeners, openWaiters,
                         errorWaiters, unanswered, disconnectedCalls, newTabsDetected,
                         wire, synVars>>
     /\ parseFailures # <<>>
          => \A m \in unanswered \ unanswered' :
               (/\ m.kind = "response"
                /\ m.replyTo # 0
                /\ commands[m.replyTo].status = "pending")
                 => /\ commands'[m.replyTo].status \in {"resolved", "rejected"}
                    /\ commands'[m.replyTo].settledBy = m.replyTo]_vars

C22_Witness ==
  /\ Len(parseFailures) = 1
  /\ parseFailures[1].outstanding = 1
  /\ Len(commands) = 1
  /\ commands[1].status = "resolved"
  /\ commands[1].settledBy = 1
  /\ pendingRequestsRef = {}
  /\ listeners = {}

\* the step is a call of sendToPage: it made the promise of a new command
SendToPageCalled ==
  /\ Len(commands') = Len(commands) + 1
  /\ commands'[Len(commands')].via = "sendToPage"

\* the commands of sendToPage the step puts on the wire
Transmitted ==
  {m \in unanswered' \ unanswered :
     /\ m.replyTo # 0
     /\ commands'[m.replyTo].via = "sendToPage"}

\* C23: sendToPage for a page whose registered connection is not open leaves
\* a connecting connection registered for the page, creating one unless the
\* registered one is already connecting, and transmits nothing yet; a
\* command of sendToPage is transmitted only on an open connection, at the
\* call if the connection was open and otherwise at the open event of the
\* connection it waits for; an error of that connection before it opens
\* rejects the command.
C23_SendToPageAwaitsOpen ==
  [][/\ \A p \in PageIds :
          (/\ SendToPageCalled
           /\ ~IsOpen(BridgeState, pageSessionsRef[p])
           /\ \E w \in openWaiters' \ openWaiters : sockets'[w.sock].page = p)
            => /\ pageSessionsRef'[p] # NoSocket
               /\ sockets'[pageSessionsRef'[p]].readyState = "CONNECTING"
               /\ sockets'[pageSessionsRef'[p]].page = p
               /\ [sock |-> pageSessionsRef'[p], cmd |-> Len(commands')] \in openWaiters'
               /\ IF ReadyState(BridgeState, pageSessionsRef[p]) = "CONNECTING"
                    THEN sockets' = sockets /\ pageSessionsRef' = pageSessionsRef
                    ELSE Len(sockets') = Len(sockets) + 1
               /\ unanswered' = unanswered
               /\ commands'[Len(commands')].status = "pending"
     /\ \A m \in Transmitted :
          /\ sockets'[m.sock].readyState = "OPEN"
          /\ sockets'[m.sock].kind = "page"
          /\ IF SendToPageCalled
               THEN m.replyTo = Len(commands') /\ IsOpen(BridgeState, m.sock)
               ELSE /\ sockets[m.sock].readyState = "CONNECTING"
                    /\ [sock |-> m.sock, cmd |-> m.replyTo] \in openWaiters
     /\ \A w \in errorWaiters :
          (/\ sockets[w.sock].readyState = "CONNECTING"
           /\ sockets'[w.sock].readyState = "CLOSED")
            => /\ commands'[w.cmd].status = "rejected"
               /\ commands'[w.cmd].settledBy = ByError
               /\ commands'[w.cmd].id = 0]_vars

\* two commands of sendToPage waited for the connection the first of them
\* opened, and its failure rejected both
C23_Witness ==
  /\ Len(sockets) = 1
  /\ sockets[1].kind = "page"
  /\ sockets[1].readyState = "CLOSED"
  /\ Len(commands) = 2
  /\ \A c \in 1..2 :
       /\ commands[c].via = "sendToPage"
       /\ commands[c].status = "rejected"
       /\ commands[c].settledBy = ByError
       /\ commands[c].id = 0
  /\ openWaiters = {}
  /\ errorWaiters = {}
  /\ unanswered = {}

\* C27: on every connection the ids of the commands put on the wire are
\* strictly increasing, the start-up commands of a page connection and the
\* keep-alive pings included, and no two commands awaiting their response
\* carry the same id.
C27_IdsIncreasePerConnection ==
  /\ \A s \in DOMAIN wire : \A i, j \in DOMAIN wire[s] :
       i < j => wire[s][i].id < wire[s][j].id
  /\ \A m, n \in unanswered : m.id = n.id => m = n

\* the page connections that have a keep-alive interval registered
WithKeepAlive == {keepAliveIntervalsRef[p] : p \in PageIds} \ {NoSocket}

\* C28: a page connection has a keep-alive interval registered exactly when
\* it is open.
C28_KeepAliveIffOpen ==
  \A s \in DOMAIN sockets :
    sockets[s].kind = "page" => (s \in WithKeepAlive <=> sockets[s].readyState = "OPEN")

\* the page connections of page p that are open or connecting
LiveConnections(p) ==
  {s \in DOMAIN sockets :
     /\ sockets[s].kind = "page"
     /\ sockets[s].page = p
     /\ sockets[s].readyState \in {"OPEN", "CONNECTING"}}

\* C29: no page id ever has two page connections that are open or connecting.
C29_OneConnectionPerPage ==
  \A p \in PageIds : Cardinality(LiveConnections(p)) <= 1

\* the commands of send and sendToPage on the wire of socket s, in the
\* order transmitted (commands are numbered in the order of the calls)
CallsOnWire(s) == SelectSeq(wire[s], LAMBDA x : x.cmd # 0)

\* C30: on every connection the commands of send and sendToPage are on the
\* wire in the order of their calls, each of them once; a command that waits
\* for its connection to open is overtaken by no later command for that
\* connection.
C30_WireInCallOrder ==
  /\ \A s \in DOMAIN wire : \A i, j \in DOMAIN CallsOnWire(s) :
       i < j => CallsOnWire(s)[i].cmd < CallsOnWire(s)[j].cmd
  /\ \A w \in openWaiters : \A x \in DOMAIN wire[w.sock] :
       wire[w.sock][x].cmd < w.cmd

\* two commands sent to a page are on the wire of its connection, in call
\* order, after the start-up commands
C30_Witness ==
  /\ Len(sockets) = 1
  /\ sockets[1].readyState = "OPEN"
  /\ Len(CallsOnWire(1)) = 2
  /\ CallsOnWire(1)[1].cmd = 1
  /\ CallsOnWire(1)[2].cmd = 2
  /\ commands[1].via = "sendToPage"
  /\ commands[2].via = "sendToPage"
  /\ wire[1][1].id = PAGE_MSG_ID_START
  /\ wire[1][4].cmd = 1

(***************************************************************************)
(* Claims on the limiter, continued                                        *)
(***************************************************************************)
\* getStats().trackedConcurrentSessions
trackedConcurrentSessions == Cardinality(activeSessionIds) + pendingReservations

\* C24: under every public operation, registerActiveSession with any id
\* included, the tracked count is at most maxConcurrentSessions.
C24_BudgetUnderRegistration ==
  trackedConcurrentSessions \in 0..maxConcurrentSessions

\* C25: leases are granted in the order of the acquireCreateLease calls
\* (requests are numbered in call order): no request holds a lease while an
\* earlier request is still queued, the queue holds exactly the waiting
\* requests, earliest first, and every step grants the head of the queue it
\* found, then the next, and so on.
C25_GrantsInCallOrder ==
  /\ [](\A q, r \in Requests :
          (q < r /\ leases[q] = "queued") => ~Granted(r))
  /\ [](/\ \A i, j \in 1..Len(queue) : i < j => queue[i] < queue[j]
        /\ {queue[i] : i \in 1..Len(queue)} = {r \in Requests : leases[r] = "queued"})
  /\ [][\A r \in Requests :
          (~Granted(r) /\ Granted(r)')
            => \A q \in 1..(r - 1) : leases[q] # "none" /\ Granted(q)']_vars

C25_Witness ==
  /\ leases = <<"finalized", "granted", "queued">>
  /\ queue = <<3>>
  /\ Len(grantLog) = 2
  /\ grantLog[1] > grantLog[2]

\* processQueue ran in the step: a request was queued, a lease finalized for
\* the first time, a session id registered, an active session released or
\* the wake-up timer fired
RanProcessQueue ==
  \/ nextRequest' # nextRequest
  \/ leases' # leases
  \/ activeSessionIds' # activeSessionIds
  \/ processTimerFires

\* processQueue can run and leave every variable as it was: when a session id
\* is registered again, or the timer fires and is armed anew
CanRerunProcessQueue == activeSessionIds # {} \/ processTimer = 0

\* the time left until the oldest entry of the creation window expires
UntilOldestExpires(st) == CREATE_WINDOW_MS - st.createTimestamps[1]

\* requests wait and only the rate budget stands in their way
RateBound(st) == Len(st.queue) > 0 /\ hasConcurrentCapacity(st)

WakeUpAtExpiry(st) ==
  IF RateBound(st)
    THEN /\ st.liveTimeouts = 1
         /\ st.processTimer = UntilOldestExpires(st)
    ELSE /\ st.liveTimeouts = 0
         /\ st.processTimer = NoTimer

WakeUpAtExpiryOrFloor(st) ==
  IF RateBound(st)
    THEN /\ st.liveTimeouts = 1
         /\ st.processTimer = Max(UntilOldestExpires(st), MIN_TIMER_DELAY_MS)
    ELSE /\ st.liveTimeouts = 0
         /\ st.processTimer = NoTimer

\* C26 as stated: after an operation that ran processQueue, one wake-up timer
\* is pending, due when the oldest window entry expires, if requests wait and
\* the concurrency budget has headroom, and none is pending otherwise.
C26_TimerDueAtExpiry ==
  /\ [][RanProcessQueue => WakeUpAtExpiry(LimiterState)']_vars
  /\ [](CanRerunProcessQueue => WakeUpAtExpiry(processQueue(LimiterState)))

\* C26, amended: the timer is due when the oldest window entry expires, or
\* MIN_TIMER_DELAY_MS after the operation if that is later.
C26_TimerDueAtExpiryOrFloor ==
  /\ [][RanProcessQueue => WakeUpAtExpiryOrFloor(LimiterState)']_vars
  /\ [](CanRerunProcessQueue => WakeUpAtExpiryOrFloor(processQueue(LimiterState)))

\* a request was queued 25 ms before the only window entry expires
C26_Witness ==
  /\ maxCreatesPerMinute = 1
  /\ Len(queue) = 1
  /\ RateBound(LimiterState)
  /\ createTimestamps = <<CREATE_WINDOW_MS - NearExpiryMs>>
  /\ processTimer = MIN_TIMER_DELAY_MS
  /\ liveTimeouts = 1

(***************************************************************************)
(* Claims on the synthesizer, continued                                    *)
(***************************************************************************)
\* C31: click de-duplication is per page: a click adds no interaction only
\* if a click of the same page was accepted less than 100 ms before it, and
\* a click less than 100 ms after an accepted click of another page adds a
\* click interaction of its own page.
C31_ClickDedupePerPage ==
  lastPageEvent.type = "click"
    => IF lastPageEvent.since < CLICK_DEDUPE_MS
         THEN lastPageEvent.added = <<>>
         ELSE /\ Len(lastPageEvent.added) = 1
              /\ lastPageEvent.added[1].data = "click"
              /\ lastPageEvent.added[1].pageId = lastPageEvent.pageId

\* C32: navigation de-duplication is per page: a main-frame navigation adds
\* no interaction only if a navigation of the same page was accepted within
\* the last 1000 ms, and one that follows an accepted navigation of another
\* page adds a frame_navigation interaction of its own page.
C32_NavigationDedupePerPage ==
  (lastPageEvent.type = "navigation" /\ lastPageEvent.since > NAVIGATION_DEDUPE_MS)
    => /\ Len(lastPageEvent.added) = 1
       /\ lastPageEvent.added[1].type = "frame_navigation"
       /\ lastPageEvent.added[1].pageId = lastPageEvent.pageId

\* the plain keys of the typing events (Backspace is not one)
PlainTypingEvents == {e \in TypingEvents : e.key # Backspace}

\* C33 as stated: an accepted plain keydown on the selector of the active typing
\* buffer is appended to the buffer, the interaction of the buffer updated in
\* place, when at most 3000 ms passed since the buffer's last update
\* (exactly 3000 ms included); it starts a new interaction only when more
\* than 3000 ms passed.
C33_MergeWindowInclusive ==
  [][\A e \in PlainTypingEvents :
       (/\ typingBufferRef # NoBuffer
        /\ typingBufferRef.selector = e.selector
        /\ ~Duplicate(SynthState, e.key)
        /\ lastKeydownRef' = [key |-> e.key, timestamp |-> 0]
        /\ Keydown(e, FocusedPage, "screencast"))
         => IF typingBufferRef.lastTimestamp <= TYPING_MERGE_MS
              THEN /\ Len(interactions') = Len(interactions)
                   /\ typingBufferRef'.interactionId = typingBufferRef.interactionId
                   /\ typingBufferRef'.text = typingBufferRef.text \o KeyText(e.key)
              ELSE /\ Len(interactions') = Len(interactions) + 1
                   /\ typingBufferRef'.interactionId # typingBufferRef.interactionId
                   /\ typingBufferRef'.text = KeyText(e.key)]_vars

\* C33, amended: the keydown is appended when less than 3000 ms passed since
\* the buffer's last update, and starts a new interaction when 3000 ms or
\* more passed.
C33_MergeWindowExclusive ==
  [][\A e \in PlainTypingEvents :
       (/\ typingBufferRef # NoBuffer
        /\ typingBufferRef.selector = e.selector
        /\ ~Duplicate(SynthState, e.key)
        /\ lastKeydownRef' = [key |-> e.key, timestamp |-> 0]
        /\ Keydown(e, FocusedPage, "screencast"))
         => IF typingBufferRef.lastTimestamp < TYPING_MERGE_MS
              THEN /\ interactions' = setText(interactions, typingBufferRef.interactionId,
                                              typingBufferRef.text \o KeyText(e.key))
                   /\ typingBufferRef'.interactionId = typingBufferRef.interactionId
                   /\ typingBufferRef'.text = typingBufferRef.text \o KeyText(e.key)
              ELSE /\ Len(interactions') = Len(interactions) + 1
                   /\ SubSeq(interactions', 1, Len(interactions)) = interactions
                   /\ typingBufferRef'.interactionId = interactions'[Len(interactions')].id
                   /\ typingBufferRef'.interactionId # typingBufferRef.interactionId
                   /\ typingBufferRef'.text = KeyText(e.key)]_vars

\* two keys were merged into one interaction, and a key typed into the same
\* selector after the window had passed started a second one
C33_Witness ==
  /\ Len(interactions) = 2
  /\ \A i \in 1..2 : interactions[i].data = "keydown" /\ interactions[i].selector = "#a"
  /\ interactions[1].text = <<"[", "]">>
  /\ interactions[2].text = <<"]">>
  /\ typingBufferRef.interactionId = interactions[2].id
  /\ typingBufferRef.selector = "#a"
  /\ typingBufferRef.lastTimestamp = 0

\* the Backspace keydowns (no Ctrl, Alt or Meta held)
BackspaceEvents == {e \in TypingEvents : e.key = Backspace}

\* Backspace typed into selector has nothing to erase
NothingToErase(selector) ==
  \/ typingBufferRef = NoBuffer
  \/ typingBufferRef.selector # selector
  \/ typingBufferRef.lastTimestamp >= TYPING_MERGE_MS
  \/ typingBufferRef.text = <<>>

\* C34: a Backspace keydown never changes the number of interactions, and
\* with no active buffer for its selector, the merge window elapsed or the
\* buffer text empty it leaves the interactions and the typing buffer as
\* they were.
C34_BackspaceKeepsCount ==
  [][\A e \in BackspaceEvents :
       (/\ lastKeydownRef'.key = Backspace
        /\ Keydown(e, FocusedPage, "screencast"))
         => /\ Len(interactions') = Len(interactions)
            /\ [i \in DOMAIN interactions |-> interactions'[i].id]
                 = [i \in DOMAIN interactions |-> interactions[i].id]
            /\ NothingToErase(e.selector)
                 => /\ interactions' = interactions
                    /\ typingBufferRef' = typingBufferRef]_vars

\* Backspace has emptied the buffer, and a later Backspace found nothing to
\* erase: the buffer's last update is older than the last keydown
C34_Witness ==
  /\ typingBufferRef # NoBuffer
  /\ typingBufferRef.text = <<>>
  /\ typingBufferRef.lastTimestamp > 0
  /\ lastKeydownRef = [key |-> Backspace, timestamp |-> 0]
  /\ Len(interactions) = 1
  /\ interactions[1].text = <<>>

(***************************************************************************)
(* Claims on the limiter, concluded                                        *)
(***************************************************************************)
\* the leases granted on which neither confirmCreated nor cancel was called
OpenLeases == {r \in Requests : leases[r] = "granted"}

\* C35: pendingReservations is the number of leases granted and neither
\* confirmed nor cancelled yet, and it goes down only in a step that
\* confirms or cancels such a lease, by one: a lease never confirmed or
\* cancelled counts against the concurrency budget in every later state.
C35_PendingCountsOpenLeases ==
  /\ [](pendingReservations = Cardinality(OpenLeases))
  /\ [][\A r \in OpenLeases :
          leases'[r] = "granted"
            => /\ pendingReservations' >= 1
               /\ trackedConcurrentSessions' >= 1]_vars
  /\ [][pendingReservations' < pendingReservations
          => /\ pendingReservations' = pendingReservations - 1
             /\ \E r \in OpenLeases : leases'[r] = "finalized"]_vars

\* the window of the only grant has aged out, its lease is still open and
\* keeps the next request waiting
C35_Witness ==
  /\ maxConcurrentSessions = 1
  /\ leases[1] = "granted"
  /\ leases[2] = "queued"
  /\ createTimestamps = <<>>
  /\ pendingReservations = 1
  /\ activeSessionIds = {}
  /\ processTimer = NoTimer

\* the requests granted a lease in the step
GrantedInStep == {r \in Requests : ~Granted(r) /\ Granted(r)'}

\* C39 as stated: confirmCreated of an open lease with a non-empty id that
\* is not active yet moves one unit from pendingReservations to the active
\* set and leaves the tracked count unchanged.
C39_ConfirmKeepsTotal ==
  [][\A r \in OpenLeases, id \in SessionIds \ activeSessionIds :
       confirmCreated(r, id)
         => /\ activeSessionIds' = activeSessionIds \cup {id}
            /\ pendingReservations' = pendingReservations - 1
            /\ trackedConcurrentSessions' = trackedConcurrentSessions]_vars

\* C39, amended: the confirmation moves one unit from pendingReservations to
\* the active set; the tracked count then rises by one for every queued
\* request processQueue grants in the same call, which takes headroom that
\* was there before the call, and is otherwise unchanged: it is never lowered.
C39_ConfirmMovesOneUnit ==
  [][\A r \in OpenLeases, id \in SessionIds \ activeSessionIds :
       confirmCreated(r, id)
         => /\ activeSessionIds' = activeSessionIds \cup {id}
            /\ pendingReservations' = pendingReservations - 1 + Cardinality(GrantedInStep)
            /\ trackedConcurrentSessions'
                 = trackedConcurrentSessions + Cardinality(GrantedInStep)
            /\ GrantedInStep # {}
                 => /\ trackedConcurrentSessions < maxConcurrentSessions
                    /\ Len(queue') < Len(queue)
            /\ trackedConcurrentSessions = maxConcurrentSessions
                 => queue' = queue]_vars

\* the first lease was confirmed with a session id; the budget of one
\* session is still taken and the second request still waits
C39_Witness ==
  /\ maxConcurrentSessions = 1
  /\ leases[1] = "finalized"
  /\ leases[2] = "queued"
  /\ decrements[1] = 1
  /\ activeSessionIds = {"s1"}
  /\ pendingReservations = 0
  /\ queue = <<2>>

\* the entries of the creation window that have not expired
Unexpired(ts) == SelectSeq(ts, LAMBDA a : a < CREATE_WINDOW_MS)

\* the step is a call of confirmCreated, cancel, registerActiveSession or
\* releaseActiveSession
AccountingCall ==
  \/ \E r \in Requests, id \in SessionIds \cup {EmptyId} : confirmCreated(r, id)
  \/ \E r \in Requests : cancel(r)
  \/ \E id \in SessionIds \cup {EmptyId} : registerActiveSession(id)
  \/ \E id \in SessionIds \cup {EmptyId} : releaseActiveSession(id)

\* C40: confirmCreated, cancel, registerActiveSession and
\* releaseActiveSession remove no unexpired entry from the creation window
\* (the unexpired entries stay, in their order, ahead of the entries of the
\* leases the call grants), a cancelled lease's entry included; the
\* unexpired entries are at all times the grants of the last 60 seconds.
C40_SlotsOnlyAgeOut ==
  /\ [][AccountingCall
          => /\ Len(Unexpired(createTimestamps')) >= Len(Unexpired(createTimestamps))
             /\ SubSeq(Unexpired(createTimestamps'), 1, Len(Unexpired(createTimestamps)))
                  = Unexpired(createTimestamps)]_vars
  /\ [](Unexpired(createTimestamps) = UnexpiredGrants)

\* the first lease was cancelled; its entry is still in the window and keeps
\* the second request waiting for the rate budget
C40_Witness ==
  /\ maxCreatesPerMinute = 1
  /\ leases[1] = "finalized"
  /\ leases[2] = "queued"
  /\ activeSessionIds = {}
  /\ pendingReservations = 0
  /\ Len(createTimestamps) = 1
  /\ createTimestamps[1] < CREATE_WINDOW_MS
  /\ queue = <<2>>
  /\ processTimer # NoTimer


(***************************************************************************)
(* Claims on the bridge, concluded                                         *)
(***************************************************************************)
\* control connection s was replaced by the control connection wsRef holds now,
\* which was made for the same page id
Replaced(s) ==
  /\ sockets[s].kind = "control"
  /\ wsRef # NoSocket
  /\ wsRef # s
  /\ sockets[wsRef].page = sockets[s].page

\* C36: the close event of a control connection that connect(pageId) replaced
\* with a new one for the same page id leaves wsRef and isConnected as they are
\* and does not invoke onWebSocketDisconnected.
C36_ReplacedCloseIsInert ==
  [][\A s \in DOMAIN sockets, code \in CloseCodes :
       (Replaced(s) /\ SocketCloses(s, code))
         => /\ wsRef' = wsRef
            /\ isConnected' = isConnected
            /\ disconnectedCalls' = disconnectedCalls]_vars

\* C37: the close event of a page connection the bridge closed itself (only
\* disconnect, ensurePageConnections and closeTarget close one; it was closing
\* when the event arrived) does not invoke onWebSocketDisconnected, whatever
\* the close code.
C37_LocalCloseIsSilent ==
  [][\A s \in DOMAIN sockets, code \in CloseCodes :
       (/\ sockets[s].kind = "page"
        /\ sockets[s].readyState = "CLOSING"
        /\ SocketCloses(s, code))
         => disconnectedCalls' = disconnectedCalls]_vars


(***************************************************************************)
(* The interactions list edited by the caller                              *)
(***************************************************************************)
\* clearInteractions()
clearInteractions(s) ==
  [s EXCEPT !.interactions = <<>>, !.typingBufferRef = NoBuffer]

\* removeInteraction(id)
removeInteraction(s, id) ==
  [s EXCEPT !.interactions = SelectSeq(@, LAMBDA i : i.id # id)]

\* the caller's edit ends the run of keys the history follows
CallerEdits(s) ==
  /\ SynStep(s)
  /\ typed' = NoRun
  /\ beforeLastKey' = NoKey
  /\ UNCHANGED <<acceptedClicks, acceptedNavigations, lastPageEvent,
                 acceptedKeydowns, enrichmentTriggers>>

ClearInteractions == CallerEdits(clearInteractions(SynthState))

RemoveInteraction(id) ==
  /\ \E i \in DOMAIN interactions : interactions[i].id = id
  /\ CallerEdits(removeInteraction(SynthState, id))

\* addInteraction(type, element, pageId) called from outside the hook
AddInteraction(type, pageId) ==
  CallerEdits(addInteraction(SynthState, type, ClickTarget, pageId, "click"))

\* keys typed while the caller adds, removes and clears interactions
EditedListNext ==
  \/ \E e \in PlainTypingEvents : Keydown(e, FocusedPage, "screencast")
  \/ KeyFollows
  \/ SynthTimePasses(TypingPause)
  \/ AddInteraction("user_event", FocusedPage)
  \/ \E id \in 1..MaxInteractions : RemoveInteraction(id)
  \/ ClearInteractions

EditedListSpec == ConnectedInit /\ [][EditedListNext]_vars

\* C38: while a typing buffer is active the interactions list holds an
\* interaction with the buffer's interactionId whose element text is the
\* buffer's text.
C38_BufferHasItsInteraction ==
  typingBufferRef # NoBuffer
    => \E i \in DOMAIN interactions :
         /\ interactions[i].id = typingBufferRef.interactionId
         /\ interactions[i].text = typingBufferRef.text

====
